---------------------------- MODULE Spec2Model ----------------------------
(***************************************************************************)
(* Model of the Figma-to-Salt code generator:                              *)
(*   - SaltComponentMapper (src/salt_component-mapper.ts): the classifier, *)
(*     the prop extractor and the tree mapper, as pure operators;          *)
(*   - LLMCodeGenerator (src/unnamed/part_000, lines 1-253): the example   *)
(*     cache, the example lookups, the completion call and the response    *)
(*     parser, as a state machine with one action per await continuation.  *)
(*                                                                         *)
(* Encoding of JavaScript values:                                          *)
(*   - a string that the code searches (names, text) is a sequence of      *)
(*     one-character strings, so includes() and toLowerCase() are computed *)
(*     and not assumed; an absent or empty string is << >> (the code       *)
(*     tests such strings for truthiness only, where both are falsy);      *)
(*   - an optional number is << >> (undefined) or <<n>>; every comparison  *)
(*     with undefined is false, as in JavaScript;                          *)
(*   - an optional object is << >> or <<object>>;                          *)
(*   - a text (completion, code, import statement) is a sequence of       *)
(*     characters, on which the regular expressions are computed.          *)
(***************************************************************************)
EXTENDS Integers, Sequences, FiniteSets, TLC

(***************************************************************************)
(* Strings                                                                 *)
(***************************************************************************)
UpperChars == <<"A","B","C","D","E","F","G","H","I","J","K","L","M",
                "N","O","P","Q","R","S","T","U","V","W","X","Y","Z">>
LowerChars == <<"a","b","c","d","e","f","g","h","i","j","k","l","m",
                "n","o","p","q","r","s","t","u","v","w","x","y","z">>

\* String.prototype.toLowerCase on a character sequence.
toLowerCase(s) ==
  SubSeq([i \in 1..Len(s) |->
            IF \E k \in 1..Len(UpperChars) : UpperChars[k] = s[i]
            THEN LowerChars[CHOOSE k \in 1..Len(UpperChars) : UpperChars[k] = s[i]]
            ELSE s[i]], 1, Len(s))

\* String.prototype.includes: sub occurs in s as a contiguous substring.
includes(s, sub) ==
  \E i \in 0..(Len(s) - Len(sub)) : SubSeq(s, i + 1, i + Len(sub)) = sub

\* s.toLowerCase().includes(sub) for an optional string s (s?. chains).
nameIncludes(s, sub) == includes(toLowerCase(s), sub)

(***************************************************************************)
(* Optional numbers: << >> is undefined, <<n>> is the number n.            *)
(***************************************************************************)
NumLt(v, k) == Len(v) = 1 /\ v[1] < k
NumGt(v, k) == Len(v) = 1 /\ v[1] > k

(***************************************************************************)
(* SaltComponentMapper.componentMap, in declaration order                  *)
(* (Object.entries iterates string keys in insertion order).               *)
(***************************************************************************)
componentMap ==
  << [name |-> "Button",   chars |-> <<"B","u","t","t","o","n">>,         import |-> "@salt-ds/core/Button"],
     [name |-> "Input",    chars |-> <<"I","n","p","u","t">>,             import |-> "@salt-ds/core/Input"],
     [name |-> "Card",     chars |-> <<"C","a","r","d">>,                 import |-> "@salt-ds/core/Card"],
     [name |-> "Text",     chars |-> <<"T","e","x","t">>,                 import |-> "@salt-ds/core/Text"],
     [name |-> "Stack",    chars |-> <<"S","t","a","c","k">>,             import |-> "@salt-ds/core/StackLayout"],
     [name |-> "Grid",     chars |-> <<"G","r","i","d">>,                 import |-> "@salt-ds/core/GridLayout"],
     [name |-> "Flex",     chars |-> <<"F","l","e","x">>,                 import |-> "@salt-ds/core/FlexLayout"],
     [name |-> "Dropdown", chars |-> <<"D","r","o","p","d","o","w","n">>, import |-> "@salt-ds/core/Dropdown"],
     [name |-> "Checkbox", chars |-> <<"C","h","e","c","k","b","o","x">>, import |-> "@salt-ds/core/Checkbox"],
     [name |-> "Radio",    chars |-> <<"R","a","d","i","o">>,             import |-> "@salt-ds/core/RadioButton"],
     [name |-> "Switch",   chars |-> <<"S","w","i","t","c","h">>,         import |-> "@salt-ds/core/Switch"],
     [name |-> "Dialog",   chars |-> <<"D","i","a","l","o","g">>,         import |-> "@salt-ds/core/Dialog"],
     [name |-> "Tabs",     chars |-> <<"T","a","b","s">>,                 import |-> "@salt-ds/core/Tabs"],
     [name |-> "Avatar",   chars |-> <<"A","v","a","t","a","r">>,         import |-> "@salt-ds/core/Avatar"],
     [name |-> "Badge",    chars |-> <<"B","a","d","g","e">>,             import |-> "@salt-ds/core/Badge"],
     [name |-> "Tooltip",  chars |-> <<"T","o","o","l","t","i","p">>,     import |-> "@salt-ds/core/Tooltip"] >>

\* The keys of componentMap.
CatalogNames == { componentMap[i].name : i \in 1..Len(componentMap) }

\* The "no mapping" result of the classifier (null).
NoMapping == "null"

\* figmaName.toLowerCase(), for each key of componentMap.
lowerCaseKeys == [i \in 1..Len(componentMap) |-> toLowerCase(componentMap[i].chars)]

\* Mutant of firstCatalogMatch: the loop does not stop at its first hit, and
\* the last entry that matches is returned.
firstCatalogMatch_LastWins(name) ==
  LET lowerName == toLowerCase(name)
      hits == { i \in 1..Len(componentMap) : includes(lowerName, lowerCaseKeys[i]) }
  IN IF hits = {} THEN NoMapping
     ELSE componentMap[CHOOSE i \in hits : \A j \in hits : i >= j].name

\* Mutant of firstCatalogMatch: the name is compared as written (neither
\* side is lower-cased).
firstCatalogMatch_CaseSensitive(name) ==
  LET hits == { i \in 1..Len(componentMap) : includes(name, componentMap[i].chars) }
  IN IF hits = {} THEN NoMapping
     ELSE componentMap[CHOOSE i \in hits : \A j \in hits : i <= j].name

\* The loop over Object.entries(componentMap): the first entry, in
\* declaration order, whose lower-cased key occurs in the lower-cased name.
firstCatalogMatch(name) ==
  LET lowerName == toLowerCase(name)
      hits == { i \in 1..Len(componentMap) : includes(lowerName, lowerCaseKeys[i]) }
  IN IF hits = {} THEN NoMapping
     ELSE componentMap[CHOOSE i \in hits : \A j \in hits : i <= j].name

\* Mutant of matchComponentName: only the catalog names are tried (the
\* pattern table is missing).
matchComponentName_CatalogOnly(name) ==
  IF name = << >> THEN NoMapping ELSE firstCatalogMatch(name)

\* SaltComponentMapper.matchComponentName
matchComponentName(name) ==
  LET exact == firstCatalogMatch(name) IN
  IF name = << >> THEN NoMapping
  ELSE IF exact # NoMapping THEN exact
  ELSE IF nameIncludes(name, <<"b","t","n">>) \/ nameIncludes(name, <<"c","t","a">>)
       THEN "Button"
  ELSE IF nameIncludes(name, <<"i","n","p","u","t">>) \/ nameIncludes(name, <<"f","i","e","l","d">>)
       THEN "Input"
  ELSE IF nameIncludes(name, <<"d","r","o","p","d","o","w","n">>)
          \/ nameIncludes(name, <<"s","e","l","e","c","t">>)
       THEN "Dropdown"
  ELSE IF nameIncludes(name, <<"c","a","r","d">>) \/ nameIncludes(name, <<"t","i","l","e">>)
       THEN "Card"
  ELSE IF nameIncludes(name, <<"m","o","d","a","l">>) \/ nameIncludes(name, <<"d","i","a","l","o","g">>)
       THEN "Dialog"
  ELSE NoMapping

\* node.layout?.mode === m
layoutModeIs(node, m) == Len(node.layout) = 1 /\ node.layout[1].mode = m

\* Mutant of detectByNodeType: the corner radius of a frame is tested before
\* its layout mode.
detectByNodeType_RadiusFirst(node) ==
  CASE node.type = "TEXT" -> "Text"
    [] node.type = "FRAME" ->
         IF NumGt(node.cornerRadius, 0) THEN "Card"
         ELSE IF layoutModeIs(node, "VERTICAL") THEN "Stack"
         ELSE IF layoutModeIs(node, "HORIZONTAL") THEN "Flex"
         ELSE "Box"
    [] node.type = "RECTANGLE" ->
         IF nameIncludes(node.name, <<"b","u","t","t","o","n">>) THEN "Button"
         ELSE IF NumGt(node.cornerRadius, 0) THEN "Card"
         ELSE "Box"
    [] node.type \in {"COMPONENT", "INSTANCE"} -> matchComponentName(node.name)
    [] OTHER -> NoMapping

\* The switch on node.type of detectComponentType.
detectByNodeType(node) ==
  CASE node.type = "TEXT" -> "Text"
    [] node.type = "FRAME" ->
         IF layoutModeIs(node, "VERTICAL") THEN "Stack"
         ELSE IF layoutModeIs(node, "HORIZONTAL") THEN "Flex"
         ELSE IF NumGt(node.cornerRadius, 0) THEN "Card"
         ELSE "Box"
    [] node.type = "RECTANGLE" ->
         IF nameIncludes(node.name, <<"b","u","t","t","o","n">>) THEN "Button"
         ELSE IF NumGt(node.cornerRadius, 0) THEN "Card"
         ELSE "Box"
    [] node.type \in {"COMPONENT", "INSTANCE"} -> matchComponentName(node.name)
    [] OTHER -> NoMapping

\* SaltComponentMapper.detectComponentType
detectComponentType(node) ==
  LET hint == IF node.name # << >> THEN firstCatalogMatch(node.name) ELSE NoMapping
  IN IF hint # NoMapping THEN hint ELSE detectByNodeType(node)

(***************************************************************************)
(* Design nodes.  A node is a record                                       *)
(*   [type, name, text, visible, layout, cornerRadius, fills, padding,     *)
(*    height, style, children]                                             *)
(* where layout is << >> or <<[mode, gap, align, justify]>>, fills is a    *)
(* sequence of [color, opacity], padding is << >>, <<n>> or the four sides *)
(* <<top, right, bottom, left>>, height is absoluteBoundingBox?.height,    *)
(* style is << >> or <<[fontSize, fontWeight, textAlign]>>.  Opacity is    *)
(* held in hundredths, so that the code's 1 is OpacityOne.                 *)
(***************************************************************************)
OpacityOne == 100

\* Mutant of detectButtonVariant: the fill colour is looked at last, after
\* the names.
detectButtonVariant_NamesBeforeFill(node) ==
  IF nameIncludes(node.name, <<"p","r","i","m","a","r","y">>) THEN "primary"
  ELSE IF nameIncludes(node.name, <<"s","e","c","o","n","d","a","r","y">>) THEN "secondary"
  ELSE IF nameIncludes(node.name, <<"g","h","o","s","t">>) \/ nameIncludes(node.name, <<"t","e","x","t">>)
       THEN "ghost"
  ELSE "primary"

\* SaltComponentMapper.detectButtonVariant
detectButtonVariant(node) ==
  IF nameIncludes(node.name, <<"p","r","i","m","a","r","y">>)
     \/ (Len(node.fills) >= 1 /\ node.fills[1].color # "")
  THEN "primary"
  ELSE IF nameIncludes(node.name, <<"s","e","c","o","n","d","a","r","y">>) THEN "secondary"
  ELSE IF nameIncludes(node.name, <<"g","h","o","s","t">>) \/ nameIncludes(node.name, <<"t","e","x","t">>)
       THEN "ghost"
  ELSE "primary"

\* Mutant of detectSize: a node without a bounding box counts as height 0.
detectSize_MissingHeightIsZero(node) ==
  IF nameIncludes(node.name, <<"s","m","a","l","l">>) \/ node.height = << >> \/ NumLt(node.height, 32)
  THEN "small"
  ELSE IF nameIncludes(node.name, <<"l","a","r","g","e">>) \/ NumGt(node.height, 48) THEN "large"
  ELSE "medium"

\* SaltComponentMapper.detectSize
detectSize(node) ==
  IF nameIncludes(node.name, <<"s","m","a","l","l">>) \/ NumLt(node.height, 32) THEN "small"
  ELSE IF nameIncludes(node.name, <<"l","a","r","g","e">>) \/ NumGt(node.height, 48) THEN "large"
  ELSE "medium"

\* value <= k in mapSpacing, after the averaging of an object value:
\* (top + right + bottom + left) / 4 <= k  iff  the sum <= 4 * k.
spacingLe(value, k) ==
  CASE Len(value) = 1 -> value[1] <= k
    [] Len(value) = 4 -> value[1] + value[2] + value[3] + value[4] <= 4 * k
    [] OTHER -> FALSE

\* Mutant of mapSpacing: the thresholds are compared with < (a boundary
\* value falls in the upper bucket).
mapSpacing_StrictThresholds(value) ==
  IF ~ spacingLe(value, 4) \/ value = << 4 >> THEN
    IF ~ spacingLe(value, 8) \/ value = << 8 >> THEN
      IF ~ spacingLe(value, 16) \/ value = << 16 >> THEN
        IF ~ spacingLe(value, 24) \/ value = << 24 >> THEN
          IF ~ spacingLe(value, 32) \/ value = << 32 >> THEN 6 ELSE 5
        ELSE 4
      ELSE 3
    ELSE 2
  ELSE 1

\* Mutant of mapSpacing: a value of at most 6 is taken to be a bucket
\* already and is returned as it is.
mapSpacing_KeepsBuckets(value) ==
  IF Len(value) = 1 /\ value[1] >= 1 /\ value[1] <= 6 THEN value[1]
  ELSE IF spacingLe(value, 4) THEN 1
  ELSE IF spacingLe(value, 8) THEN 2
  ELSE IF spacingLe(value, 16) THEN 3
  ELSE IF spacingLe(value, 24) THEN 4
  ELSE IF spacingLe(value, 32) THEN 5
  ELSE 6

\* SaltComponentMapper.mapSpacing
mapSpacing(value) ==
  IF spacingLe(value, 4) THEN 1
  ELSE IF spacingLe(value, 8) THEN 2
  ELSE IF spacingLe(value, 16) THEN 3
  ELSE IF spacingLe(value, 24) THEN 4
  ELSE IF spacingLe(value, 32) THEN 5
  ELSE 6

\* SaltComponentMapper.mapAlignment
mapAlignment(align) ==
  CASE align = "MIN" -> "start"
    [] align = "CENTER" -> "center"
    [] align = "MAX" -> "end"
    [] align = "SPACE_BETWEEN" -> "stretch"
    [] OTHER -> "start"

\* SaltComponentMapper.mapJustify
mapJustify(justify) ==
  CASE justify = "MIN" -> "start"
    [] justify = "CENTER" -> "center"
    [] justify = "MAX" -> "end"
    [] justify = "SPACE_BETWEEN" -> "space-between"
    [] justify = "SPACE_AROUND" -> "space-around"
    [] justify = "SPACE_EVENLY" -> "space-evenly"
    [] OTHER -> "start"

\* The empty props object {}.
EmptyProps == [k \in {} |-> TRUE]

\* A props object with the single key k, when cond holds.
propIf(cond, k, v) == IF cond THEN k :> v ELSE EmptyProps

\* SaltComponentMapper.extractStyleProps
extractStyleProps(style) ==
  propIf(Len(style.fontSize) = 1 /\ style.fontSize[1] # 0, "fontSize",
         IF Len(style.fontSize) = 1 THEN style.fontSize[1] ELSE 0)
  @@ propIf(Len(style.fontWeight) = 1 /\ style.fontWeight[1] # 0, "fontWeight",
            IF Len(style.fontWeight) = 1 THEN style.fontWeight[1] ELSE 0)
  @@ propIf(style.textAlign # << >>, "textAlign", toLowerCase(style.textAlign))

\* if (node.padding): a number other than 0, or an object.
paddingTruthy(node) ==
  Len(node.padding) = 4 \/ (Len(node.padding) = 1 /\ node.padding[1] # 0)

\* Mutant of extractTypeProps: an absent gap is taken as 0
\* (mapSpacing(node.layout.gap || 0)).
extractTypeProps_MissingGapIsZero(node, componentType) ==
  CASE componentType = "Button" ->
         ("variant" :> detectButtonVariant(node))
         @@ ("size" :> detectSize(node))
         @@ propIf(nameIncludes(node.name, <<"d","i","s","a","b","l","e","d">>), "disabled", TRUE)
    [] componentType = "Input" ->
         ("placeholder" :> (IF node.name # << >> THEN node.name ELSE <<"E","n","t","e","r"," ","t","e","x","t",".",".",".">>))
         @@ propIf(nameIncludes(node.name, <<"e","r","r","o","r">>), "validationStatus", "error")
    [] componentType = "Card" ->
         propIf(Len(node.fills) >= 1, "variant",
                IF Len(node.fills) >= 1 /\ NumLt(node.fills[1].opacity, OpacityOne)
                THEN "secondary" ELSE "primary")
         @@ propIf(paddingTruthy(node), "padding", mapSpacing(node.padding))
    [] componentType \in {"Stack", "Flex"} ->
         IF Len(node.layout) = 1
         THEN ("gap" :> mapSpacing(IF node.layout[1].gap = << >> THEN << 0 >>
                                      ELSE node.layout[1].gap))
              @@ ("align" :> mapAlignment(node.layout[1].align))
              @@ propIf(componentType = "Flex", "justify",
                        mapJustify(node.layout[1].justify))
         ELSE EmptyProps
    [] OTHER -> EmptyProps

\* The switch on componentType of extractProps.
extractTypeProps(node, componentType) ==
  CASE componentType = "Button" ->
         ("variant" :> detectButtonVariant(node))
         @@ ("size" :> detectSize(node))
         @@ propIf(nameIncludes(node.name, <<"d","i","s","a","b","l","e","d">>), "disabled", TRUE)
    [] componentType = "Input" ->
         ("placeholder" :> (IF node.name # << >> THEN node.name ELSE <<"E","n","t","e","r"," ","t","e","x","t",".",".",".">>))
         @@ propIf(nameIncludes(node.name, <<"e","r","r","o","r">>), "validationStatus", "error")
    [] componentType = "Card" ->
         propIf(Len(node.fills) >= 1, "variant",
                IF Len(node.fills) >= 1 /\ NumLt(node.fills[1].opacity, OpacityOne)
                THEN "secondary" ELSE "primary")
         @@ propIf(paddingTruthy(node), "padding", mapSpacing(node.padding))
    [] componentType \in {"Stack", "Flex"} ->
         IF Len(node.layout) = 1
         THEN ("gap" :> mapSpacing(node.layout[1].gap))
              @@ ("align" :> mapAlignment(node.layout[1].align))
              @@ propIf(componentType = "Flex", "justify",
                        mapJustify(node.layout[1].justify))
         ELSE EmptyProps
    [] OTHER -> EmptyProps

\* SaltComponentMapper.extractProps.  Object.assign(props, style props)
\* comes last, so a style key overrides an earlier key of the same name.
extractProps(node, componentType) ==
  (IF Len(node.style) = 1 THEN extractStyleProps(node.style[1]) ELSE EmptyProps)
  @@ extractTypeProps(node, componentType)
  @@ propIf(node.visible = FALSE, "hidden", TRUE)

\* this.componentMap[componentType] || componentType
importOf(componentType) ==
  IF componentType \in CatalogNames
  THEN componentMap[CHOOSE i \in 1..Len(componentMap) :
                      componentMap[i].name = componentType].import
  ELSE componentType

\* SaltComponentMapper.createSaltComponent: << >> is null, <<c>> a component.
\* A content of << >> is an absent content.
createSaltComponent(node) ==
  LET componentType == detectComponentType(node) IN
  IF componentType = NoMapping THEN << >>
  ELSE << [type     |-> componentType,
           props    |-> extractProps(node, componentType),
           children |-> << >>,
           import   |-> importOf(componentType),
           content  |-> IF node.type = "TEXT" THEN node.text ELSE << >>] >>

\* SaltComponentMapper.processNode, as the forest it adds to its parent's
\* children (or to the roots when there is no parent): a classified node
\* yields its component with the forests of its children, in order, as
\* children; an unclassified node yields the forests of its children.
RECURSIVE processNode(_)
RECURSIVE processChildren(_)

\* Mutant of processNode: the children of an unclassified node are not
\* walked (the else branch is missing).
processNode_DropsWrapped(node) ==
  LET saltComponent == createSaltComponent(node) IN
  IF saltComponent # << >>
  THEN << [saltComponent[1] EXCEPT !.children = processChildren(node.children)] >>
  ELSE << >>

processNode(node) ==
  LET saltComponent == createSaltComponent(node) IN
  IF saltComponent # << >>
  THEN << [saltComponent[1] EXCEPT !.children = processChildren(node.children)] >>
  ELSE processChildren(node.children)

\* Mutant of processChildren: each child's forest is put before the forests
\* of the children that follow it (unshift for push).
processChildren_Reversed(children) ==
  IF children = << >> THEN << >>
  ELSE processChildren(Tail(children)) \o processNode(Head(children))

\* node.children.forEach(child => this.processNode(child, components, parent))
processChildren(children) ==
  IF children = << >> THEN << >>
  ELSE processNode(Head(children)) \o processChildren(Tail(children))

\* SaltComponentMapper.mapToSaltComponents(figmaData): the root components.
mapToSaltComponents(figmaData) == processNode(figmaData.structure)

(***************************************************************************)
(* Texts (the completion, the extracted code, an import statement) are     *)
(* sequences of characters.  Three characters are written by name.         *)
(***************************************************************************)
BT == "[backtick]"
DQ == "[double quote]"
NL == "\n"

\* \s of a JavaScript regular expression (the ones that occur in the texts).
WhiteSpace == {" ", NL, "\t", "\r"}
\* \w of a JavaScript regular expression.
WordChars ==
  { UpperChars[k] : k \in 1..Len(UpperChars) } \cup { LowerChars[k] : k \in 1..Len(LowerChars) }
  \cup {"0","1","2","3","4","5","6","7","8","9","_"}
\* ['"]
QuoteChars == {"'", DQ}

\* pat occurs in s at index p.
startsAt(s, p, pat) ==
  p >= 1 /\ p + Len(pat) - 1 <= Len(s) /\ SubSeq(s, p, p + Len(pat) - 1) = pat

\* The least index k >= p of s with s[k] not in set, or Len(s) + 1.
skipWhile(s, p, set) ==
  LET rest == { k \in p..Len(s) : s[k] \notin set }
  IN IF rest = {} THEN Len(s) + 1 ELSE CHOOSE k \in rest : \A j \in rest : k <= j

\* The least index k >= p of s with s[k] in set, or 0.
findFirst(s, p, set) ==
  LET hits == { k \in p..Len(s) : s[k] \in set }
  IN IF hits = {} THEN 0 ELSE CHOOSE k \in hits : \A j \in hits : k <= j

\* The least index k >= p at which pat occurs in s, or 0.
indexOf(s, pat, p) ==
  LET hits == { k \in p..Len(s) : startsAt(s, k, pat) }
  IN IF hits = {} THEN 0 ELSE CHOOSE k \in hits : \A j \in hits : k <= j

(***************************************************************************)
(* parseAndValidateCode: the code block,                                   *)
(*   /```(?:tsx?|jsx?)\n([\s\S]*?)\n```/                                   *)
(***************************************************************************)
\* The opening fences the expression accepts, each with its newline.
OpenFences == { <<BT,BT,BT,"t","s",NL>>, <<BT,BT,BT,"t","s","x",NL>>, <<BT,BT,BT,"j","s",NL>>, <<BT,BT,BT,"j","s","x",NL>> }

\* The index after the opening fence that starts at p, or 0.
openFenceEnd(s, p) ==
  IF \E f \in OpenFences : startsAt(s, p, f)
  THEN p + Len(CHOOSE f \in OpenFences : startsAt(s, p, f))
  ELSE 0

\* llmResponse.match(...): << >> when there is no match, else <<code>>.
\* The match starts at the leftmost opening fence; the lazy group ends at
\* the first newline-plus-fence at or after the end of the opening fence.
\* (When the leftmost opening fence has no closing fence, no later one has.)
codeMatch(llmResponse) ==
  LET opens == { p \in 1..Len(llmResponse) : openFenceEnd(llmResponse, p) # 0 }
      p0    == CHOOSE p \in opens : \A r \in opens : p <= r
      from  == openFenceEnd(llmResponse, p0)
      close == indexOf(llmResponse, <<NL,BT,BT,BT>>, from)
  IN IF opens = {} THEN << >>
     ELSE IF close = 0 THEN << >>
     ELSE << SubSeq(llmResponse, from, close - 1) >>

(***************************************************************************)
(* parseAndValidateCode: the import statements,                            *)
(*   /import\s+(?:{[^}]+}|\*\s+as\s+\w+|\w+)\s+from\s+['"]([^'"]+)['"]/g   *)
(***************************************************************************)
\* The index after the import clause that starts at b, or 0:
\* {[^}]+}  or  \*\s+as\s+\w+  or  \w+ .
importClauseEnd(s, b) ==
  IF b > Len(s) THEN 0
  ELSE IF s[b] = "{" THEN
         LET k == findFirst(s, b + 1, {"}"}) IN IF k >= b + 2 THEN k + 1 ELSE 0
  ELSE IF s[b] = "*" THEN
         LET c1 == skipWhile(s, b + 1, WhiteSpace)
             c2 == skipWhile(s, c1 + 2, WhiteSpace)
             w  == skipWhile(s, c2, WordChars)
         IN IF c1 > b + 1 /\ startsAt(s, c1, <<"a","s">>) /\ c2 > c1 + 2 /\ w > c2
            THEN w ELSE 0
  ELSE LET w == skipWhile(s, b, WordChars) IN IF w > b THEN w ELSE 0

\* The index of the last character of the match that starts at i, or 0.
importMatchEnd(s, i) ==
  LET b  == skipWhile(s, i + 6, WhiteSpace)
      ce == importClauseEnd(s, b)
      d  == skipWhile(s, ce, WhiteSpace)
      e  == skipWhile(s, d + 4, WhiteSpace)
      f  == findFirst(s, e + 1, QuoteChars)
  IN IF /\ startsAt(s, i, <<"i","m","p","o","r","t">>)
        /\ b > i + 6
        /\ ce # 0
        /\ d > ce
        /\ startsAt(s, d, <<"f","r","o","m">>)
        /\ e > d + 4
        /\ e <= Len(s)
        /\ s[e] \in QuoteChars
        /\ f >= e + 2
     THEN f ELSE 0

\* The while loop over importRegex.exec(code): every match, left to right,
\* each search resuming after the previous match.
RECURSIVE execImports(_, _)
execImports(code, from) ==
  LET starts == { i \in from..Len(code) : importMatchEnd(code, i) # 0 }
      i0     == CHOOSE i \in starts : \A j \in starts : i <= j
  IN IF starts = {} THEN << >>
     ELSE << SubSeq(code, i0, importMatchEnd(code, i0)) >>
          \o execImports(code, importMatchEnd(code, i0) + 1)

\* The imports of parseAndValidateCode.
extractImports(code) == execImports(code, 1)

(***************************************************************************)
(* extractDependencies                                                     *)
(***************************************************************************)
\* imp.match(/from\s+['"]([^'"]+)['"]/): << >> or <<the captured path>>.
fromMatch(imp) ==
  LET ok(p) == LET e == skipWhile(imp, p + 4, WhiteSpace) IN
                 /\ startsAt(imp, p, <<"f","r","o","m">>)
                 /\ e > p + 4
                 /\ e <= Len(imp)
                 /\ imp[e] \in QuoteChars
                 /\ findFirst(imp, e + 1, QuoteChars) >= e + 2
      hits  == { p \in 1..Len(imp) : ok(p) }
      p0    == CHOOSE p \in hits : \A r \in hits : p <= r
      e0    == skipWhile(imp, p0 + 4, WhiteSpace)
  IN IF hits = {} THEN << >>
     ELSE << SubSeq(imp, e0 + 1, findFirst(imp, e0 + 1, QuoteChars) - 1) >>

\* dep.split('/').slice(0, n).join('/'): dep up to its n-th slash.
RECURSIVE firstSegments(_, _)
firstSegments(dep, n) ==
  LET k == findFirst(dep, 1, {"/"}) IN
  IF k = 0 THEN dep
  ELSE IF n = 1 THEN SubSeq(dep, 1, k - 1)
  ELSE SubSeq(dep, 1, k) \o firstSegments(SubSeq(dep, k + 1, Len(dep)), n - 1)

\* Mutant of packageName: a scoped path keeps its scope only.
packageName_ScopeOnly(imp) ==
  LET m   == fromMatch(imp)
      dep == m[1]
  IN IF m = << >> THEN << >>
     ELSE IF startsAt(dep, 1, <<".">>) \/ startsAt(dep, 1, <<"/">>) THEN << >>
     ELSE << firstSegments(dep, 1) >>

\* The package name of one import statement: << >> when it adds none.
packageName(imp) ==
  LET m   == fromMatch(imp)
      dep == m[1]
  IN IF m = << >> THEN << >>
     ELSE IF startsAt(dep, 1, <<".">>) \/ startsAt(dep, 1, <<"/">>) THEN << >>
     ELSE IF startsAt(dep, 1, <<"@">>) THEN << firstSegments(dep, 2) >>
     ELSE << firstSegments(dep, 1) >>

\* deps.add(x) followed by Array.from(deps): insertion order, no duplicates.
setAdd(seq, x) == IF \E k \in 1..Len(seq) : seq[k] = x THEN seq ELSE Append(seq, x)

\* LLMCodeGenerator.extractDependencies
RECURSIVE extractDependenciesFrom(_, _)
extractDependenciesFrom(imports, deps) ==
  IF imports = << >> THEN deps
  ELSE LET pkg == packageName(Head(imports)) IN
       extractDependenciesFrom(Tail(imports),
                               IF pkg = << >> THEN deps ELSE setAdd(deps, pkg[1]))

extractDependencies(imports) == extractDependenciesFrom(imports, << >>)

(***************************************************************************)
(* validateCode                                                            *)
(***************************************************************************)
WarnProvider == "Component should be wrapped in SaltProvider"
WarnTypes    == "Consider adding TypeScript types for the component"
WarnA11y     == "Consider adding accessibility attributes"
WarnErrors   == "Consider adding error handling"

\* warnings.push(w) when cond holds.
pushIf(cond, w) == IF cond THEN << w >> ELSE << >>

\* Mutant of validateCode: the checks are chained (else if), so that only
\* the first failed check gives its warning.
validateCode_FirstFailedCheckOnly(code) ==
  IF ~ includes(code, <<"S","a","l","t","P","r","o","v","i","d","e","r">>) THEN << WarnProvider >>
  ELSE IF ~ includes(code, <<":"," ","F","C">>) /\ ~ includes(code, <<"R","e","a","c","t",".","F","C">>) THEN << WarnTypes >>
  ELSE IF ~ includes(code, <<"a","r","i","a","-">>) /\ ~ includes(code, <<"r","o","l","e","=">>) THEN << WarnA11y >>
  ELSE IF ~ includes(code, <<"E","r","r","o","r","B","o","u","n","d","a","r","y">>) /\ ~ includes(code, <<"t","r","y">>) /\ ~ includes(code, <<"c","a","t","c","h">>)
       THEN << WarnErrors >>
  ELSE << >>

\* LLMCodeGenerator.validateCode
validateCode(code) ==
  pushIf(~ includes(code, <<"S","a","l","t","P","r","o","v","i","d","e","r">>), WarnProvider)
  \o pushIf(~ includes(code, <<":"," ","F","C">>) /\ ~ includes(code, <<"R","e","a","c","t",".","F","C">>), WarnTypes)
  \o pushIf(~ includes(code, <<"a","r","i","a","-">>) /\ ~ includes(code, <<"r","o","l","e","=">>), WarnA11y)
  \o pushIf(~ includes(code, <<"E","r","r","o","r","B","o","u","n","d","a","r","y">>) /\ ~ includes(code, <<"t","r","y">>)
            /\ ~ includes(code, <<"c","a","t","c","h">>), WarnErrors)

(***************************************************************************)
(* parseAndValidateCode.  An outcome is [threw |-> FALSE, value |-> v] or  *)
(* [threw |-> TRUE, message |-> m].                                        *)
(***************************************************************************)
NoCodeBlockMessage == "No code block found in LLM response"

\* Mutant of parseAndValidateCode: without a match, the whole text is taken
\* as the code (`match ? match[1] : content`).
parseAndValidateCode_Fallback(llmResponse) ==
  LET codeM == codeMatch(llmResponse)
      code  == IF codeM = << >> THEN llmResponse ELSE codeM[1]
  IN [threw |-> FALSE,
      value |-> [code         |-> code,
                 imports      |-> extractImports(code),
                 dependencies |-> extractDependencies(extractImports(code)),
                 warnings     |-> validateCode(code)]]

\* Mutant of parseAndValidateCode: the warnings field is attached only when
\* there is a warning.
parseAndValidateCode_OptionalWarnings(llmResponse) ==
  LET codeM == codeMatch(llmResponse)
      code  == codeM[1]
  IN IF codeM = << >>
     THEN [threw |-> TRUE, message |-> NoCodeBlockMessage]
     ELSE IF validateCode(code) = << >>
     THEN [threw |-> FALSE,
           value |-> [code         |-> code,
                      imports      |-> extractImports(code),
                      dependencies |-> extractDependencies(extractImports(code))]]
     ELSE [threw |-> FALSE,
           value |-> [code         |-> code,
                      imports      |-> extractImports(code),
                      dependencies |-> extractDependencies(extractImports(code)),
                      warnings     |-> validateCode(code)]]

\* LLMCodeGenerator.parseAndValidateCode
parseAndValidateCode(llmResponse) ==
  LET codeM == codeMatch(llmResponse)
      code  == codeM[1]
  IN IF codeM = << >>
     THEN [threw |-> TRUE, message |-> NoCodeBlockMessage]
     ELSE [threw |-> FALSE,
           value |-> [code         |-> code,
                      imports      |-> extractImports(code),
                      dependencies |-> extractDependencies(extractImports(code)),
                      warnings     |-> validateCode(code)]]

(***************************************************************************)
(* LLMCodeGenerator: prompt assembly                                       *)
(***************************************************************************)
\* new Set(components.map(c => c.type)), in insertion order: the distinct
\* types of the components passed in (the roots of the mapped tree).
RECURSIVE componentTypesFrom(_, _)
componentTypesFrom(components, types) ==
  IF components = << >> THEN types
  ELSE componentTypesFrom(Tail(components), setAdd(types, Head(components).type))

componentTypes(components) == componentTypesFrom(components, << >>)

\* buildComponentTree's imports.add(component.import), over the whole
\* forest in pre-order.
RECURSIVE collectImports(_, _)
collectImports(components, imports) ==
  IF components = << >> THEN imports
  ELSE LET c == Head(components) IN
       collectImports(Tail(components),
                      collectImports(c.children, setAdd(imports, c.import)))

\* SaltComponentMapper.generateComponentContext: the import paths and the
\* hierarchy that the text renders (the text layout itself is not modelled).
generateComponentContext(components) ==
  [imports |-> collectImports(components, << >>), hierarchy |-> components]

\* data.requirements.map((req, i) => `${i + 8}. ${req}`)
numberedRequirements(requirements) ==
  [i \in 1..Len(requirements) |-> << i + 7, requirements[i] >>]

\* LLMCodeGenerator.buildPrompt: the variable parts of the template.
buildPrompt(figmaData, componentContext, examples, requirements) ==
  [figmaData        |-> figmaData,
   componentContext |-> componentContext,
   examples         |-> examples,
   requirements     |-> numberedRequirements(requirements)]

(***************************************************************************)
(* LLMCodeGenerator: remote calls.                                         *)
(* A QnA outcome is [kind |-> "error"] (axios.post rejects) or             *)
(* [kind |-> "answer", answer |-> a], a = "" standing for an answer that   *)
(* is empty, null or missing.  A completion outcome is [kind |-> "error"], *)
(* [kind |-> "malformed", reading |-> p] (a body in which the read of     *)
(* data.choices[0].message.content meets undefined at property p) or      *)
(* [kind |-> "text", content |-> t].                                       *)
(***************************************************************************)
\* LLMCodeGenerator.fetchExampleFromQnA: "" is null.
fetchExampleFromQnA(outcome) ==
  IF outcome.kind = "answer" THEN outcome.answer ELSE ""

\* Mutant of cacheHas: the cache is probed with a key that is never in it.
cacheHas_WrongKey(cache, type) == FALSE

\* this.exampleCache.has(type)
cacheHas(cache, type) == type \in DOMAIN cache

\* this.exampleCache.set(type, example)
cacheSet(cache, type, example) == (type :> example) @@ cache

\* Mutant of cacheAfterLookup: the result is stored without the test, so a
\* failed lookup leaves a null entry.
cacheAfterLookup_StoresNull(cache, type, example) == cacheSet(cache, type, example)

\* Mutant of cacheAfterLookup: a failed lookup deletes the entry of its type.
cacheAfterLookup_EvictsOnFailure(cache, type, example) ==
  IF example # "" THEN cacheSet(cache, type, example)
  ELSE [t \in DOMAIN cache \ {type} |-> cache[t]]

\* if (example) { this.exampleCache.set(type, example); ... }
cacheAfterLookup(cache, type, example) ==
  IF example # "" THEN cacheSet(cache, type, example) ELSE cache

\* Mutant of examplesAfterLookup: the result is pushed without the test.
examplesAfterLookup_PushesNull(examples, example) == Append(examples, example)

\* if (example) { ...; examples.push(example); }
examplesAfterLookup(examples, example) ==
  IF example # "" THEN Append(examples, example) ELSE examples

\* The for loop of fetchRelevantExamples from position idx up to its next
\* await: every cached type adds its example; the loop stops at the first
\* type that is not cached (idx <= Len(types)) or at the end.
RECURSIVE runLoop(_, _, _, _)
runLoop(cache, types, idx, examples) ==
  IF idx > Len(types) THEN [idx |-> idx, examples |-> examples]
  ELSE IF cacheHas(cache, types[idx])
       THEN runLoop(cache, types, idx + 1, Append(examples, cache[types[idx]]))
       ELSE [idx |-> idx, examples |-> examples]

ErrorPrefix       == "Failed to generate code: "
\* The message of the TypeError thrown on reading a property of undefined.
TypeErrorMessage(property) ==
  CASE property = "name"     -> "Cannot read properties of undefined (reading 'name')"
    [] property = "0"        -> "Cannot read properties of undefined (reading '0')"
    [] property = "message"  -> "Cannot read properties of undefined (reading 'message')"
    [] property = "content"  -> "Cannot read properties of undefined (reading 'content')"
    [] property = "includes" -> "Cannot read properties of undefined (reading 'includes')"
RequestFailed     == "Request failed"

\* throw new Error(`Failed to generate code: ${error.message}`)
wrapError(message) == << ErrorPrefix, message >>

(***************************************************************************)
(* Inputs of the model                                                     *)
(***************************************************************************)
\* A design node with every optional field absent.
Node(type, name, children) ==
  [type |-> type, name |-> name, text |-> << >>, visible |-> TRUE,
   layout |-> << >>, cornerRadius |-> << >>, fills |-> << >>,
   padding |-> << >>, height |-> << >>, style |-> << >>,
   children |-> children]

\* A layout descriptor with only its mode set.
Layout(mode) == << [mode |-> mode, gap |-> << >>, align |-> "", justify |-> ""] >>

TextNode(text) == [Node("TEXT", << >>, << >>) EXCEPT !.text = text]

\* {type: FRAME, layout: {mode: VERTICAL}, children: [{type: TEXT, text:
\* "Hello"}, {type: RECTANGLE, name: "Submit Button"}]}
ScenarioTree ==
  [Node("FRAME", << >>,
        << TextNode(<<"H","e","l","l","o">>), Node("RECTANGLE", <<"S","u","b","m","i","t"," ","B","u","t","t","o","n">>, << >>) >>)
   EXCEPT !.layout = Layout("VERTICAL")]

\* An unclassifiable root (a group without a name): its children are roots.
GroupTree ==
  Node("GROUP", << >>,
       << TextNode(<<"H","i">>), Node("RECTANGLE", <<"S","u","b","m","i","t"," ","B","u","t","t","o","n">>, << >>), TextNode(<<"B","y","e">>) >>)

\* An unclassifiable root over a stack (with a text inside) and a text.
MixedTree ==
  Node("GROUP", << >>,
       << [Node("FRAME", << >>, << TextNode(<<"H","e","l","l","o">>) >>) EXCEPT !.layout = Layout("VERTICAL")],
          TextNode(<<"H","i">>) >>)

\* request.figmaData: structure is << >> when the field is missing.
DesignInputs ==
  { [structure |-> << ScenarioTree >>], [structure |-> << GroupTree >>],
    [structure |-> << MixedTree >>], [structure |-> << >>] }

RequirementInputs == { << >>, << "Support dark mode" >> }

Requests == [figmaData : DesignInputs, requirements : RequirementInputs]

\* The texts the QnA endpoint may answer with.
ExampleTexts == {"example A", "example B"}

QnaOutcomes ==
  {[kind |-> "error"]} \cup [kind : {"answer"}, answer : ExampleTexts \cup {""}]

\* Completion texts: a tsx block, no block, a block with a tag the
\* expression does not accept, a block that passes every check.
ResponseGood ==
  <<"H","e","r","e"," ","i","s"," ","t","h","e"," ","c","o","m","p","o","n","e","n","t",":",NL,BT,BT,BT,"t","s","x",NL,"i","m","p","o","r","t"," ","{"," ","B","u","t","t","o","n"," ","}"," ","f","r","o","m"," ","'","@","s","a","l","t","-","d","s","/","c","o","r","e","'",";",NL,"e","x","p","o","r","t"," ","d","e","f","a","u","l","t"," ","A","p","p",";",NL,BT,BT,BT,NL,"D","o","n","e",".">>
ResponseNoBlock == <<"S","o","r","r","y",","," ","I"," ","c","a","n","n","o","t"," ","h","e","l","p"," ","w","i","t","h"," ","t","h","a","t",".">>
ResponseOtherTag == <<BT,BT,BT,"t","y","p","e","s","c","r","i","p","t",NL,"i","m","p","o","r","t"," ","{"," ","B","u","t","t","o","n"," ","}"," ","f","r","o","m"," ","'","@","s","a","l","t","-","d","s","/","c","o","r","e","'",";",NL,BT,BT,BT>>
ResponseClean ==
  <<BT,BT,BT,"j","s","x",NL,"i","m","p","o","r","t"," ","R","e","a","c","t"," ","f","r","o","m"," ",DQ,"r","e","a","c","t",DQ,";",NL,"i","m","p","o","r","t"," ","{"," ","S","a","l","t","P","r","o","v","i","d","e","r"," ","}"," ","f","r","o","m"," ","'","@","s","a","l","t","-","d","s","/","c","o","r","e","'",";",NL,"c","o","n","s","t"," ","A","p","p",":"," ","F","C"," ","="," ","(",")"," ","=",">"," ","<","S","a","l","t","P","r","o","v","i","d","e","r"," ","a","r","i","a","-","l","a","b","e","l","=",DQ,"x",DQ,">","{","a","t","t","e","m","p","t","(",")","}","<","/","S","a","l","t","P","r","o","v","i","d","e","r",">",";",NL,"t","r","y"," ","{","}"," ","c","a","t","c","h"," ","(","e",")"," ","{","}",NL,BT,BT,BT>>

Responses == { ResponseGood, ResponseNoBlock, ResponseOtherTag, ResponseClean }

LlmOutcomes ==
  {[kind |-> "error"]} \cup [kind : {"malformed"}, reading : {"0", "message", "content"}]
  \cup [kind : {"text"}, content : Responses]

\* The inputs of the calls that run concurrently (a part of the above).
ConcurrentRequests ==
  [figmaData : { [structure |-> << ScenarioTree >>] },
   requirements : { << >> }]

ConcurrentLlmOutcomes ==
  {[kind |-> "error"]} \cup [kind : {"text"}, content : { ResponseGood, ResponseNoBlock }]

\* mapToSaltComponents and parseAndValidateCode on the inputs above, computed
\* once (both are pure functions).
mappedInputs ==
  [d \in { x \in DesignInputs : x.structure # << >> } |->
     mapToSaltComponents([structure |-> d.structure[1]])]

parsedResponses == [r \in Responses |-> parseAndValidateCode(r)]

\* Bounds: concurrent generateReactCode calls, and calls in all.
MaxConcurrent == 2
MaxCalls == 3

Slots == 1..MaxConcurrent

(***************************************************************************)
(* State                                                                   *)
(***************************************************************************)
VARIABLES
  exampleCache,   \* LLMCodeGenerator.exampleCache: type -> example text
  calls,          \* per slot: the generateReactCode call running in it
  started,        \* number of generateReactCode calls made so far
  qnaOk,          \* per type: number of lookups that returned an example
  qnaFailed,      \* the types that had a lookup fail or come back empty
  mapInput,       \* the figmaData handed to mapToSaltComponents
  mapOutput,      \* << >>, or <<the roots it returned>>
  applied         \* the calls made to the other pure methods, in order:
                  \* records [op, arg, case, result]

vars == << exampleCache, calls, started, qnaOk, qnaFailed, mapInput, mapOutput, applied >>
genVars == << exampleCache, calls, started, qnaOk, qnaFailed >>
mapVars == << mapInput, mapOutput, applied >>

\* A slot in which no call was made yet.
\*   request: << >> or <<the request>>
\*   pc: "idle", "fetching" (awaiting fetchExampleFromQnA for types[idx]),
\*       "resuming" (fetchRelevantExamples is over and generateReactCode
\*       has not yet resumed from its await of it: nothing is pending),
\*       "completing" (awaiting callLLM), "returned", "failed"
\*   qnaIssued: the types this call sent a QnA request for, in order
\*   qnaSkipped: the types whose lookup failed or came back empty
\*   served: the types whose example came from the cache
\*   llmRequests: the completion requests this call sent
\*   completion: how the completion request resolved: "none" (not yet),
\*       "error", "malformed" or "text"
\*   response: << >> or <<the completion text>>
\*   result: << >> or <<the GeneratedCode>>;  error: << >> or <<the Error>>
IdleCall ==
  [pc |-> "idle", request |-> << >>, saltComponents |-> << >>, types |-> << >>,
   idx |-> 0, examples |-> << >>, qnaIssued |-> << >>, qnaSkipped |-> {},
   served |-> {}, prompt |-> << >>, llmRequests |-> 0, completion |-> "none",
   response |-> << >>,
   result |-> << >>, error |-> << >>]

InFlight(call) == call.pc \in {"fetching", "resuming", "completing"}

\* The types the loop takes from the cache between idx and its next stop.
servedBetween(types, from, to) == { types[k] : k \in from..(to - 1) }

\* Mutant of continueCall: the loop ends at the first type that is not
\* cached, without a lookup.
continueCall_SkipsLookups(call, cache, idx, examples) ==
  LET r == runLoop(cache, call.types, idx, examples) IN
  [call EXCEPT !.pc = "resuming", !.idx = r.idx, !.examples = r.examples,
               !.served = @ \cup servedBetween(call.types, idx, r.idx)]

\* fetchRelevantExamples from position idx up to the call's next await: the
\* await of a lookup or, when the loop is over, the await of
\* fetchRelevantExamples itself in generateReactCode, which yields even
\* when nothing is pending.
continueCall(call, cache, idx, examples) ==
  LET r == runLoop(cache, call.types, idx, examples) IN
  IF r.idx <= Len(call.types)
  THEN [call EXCEPT !.pc = "fetching", !.idx = r.idx, !.examples = r.examples,
                    !.served = @ \cup servedBetween(call.types, idx, r.idx),
                    !.qnaIssued = Append(@, call.types[r.idx])]
  ELSE [call EXCEPT !.pc = "resuming", !.idx = r.idx, !.examples = r.examples,
                    !.served = @ \cup servedBetween(call.types, idx, r.idx)]

\* generateReactCode from `const examples = await ...` to its next await:
\* buildPrompt and the request of callLLM.
resumeCall(call) ==
  [call EXCEPT !.pc = "completing",
               !.prompt = << buildPrompt(call.request[1].figmaData,
                                         generateComponentContext(call.saltComponents),
                                         call.examples,
                                         call.request[1].requirements) >>,
               !.llmRequests = @ + 1]

\* The catch block of generateReactCode.
failCall(call, message) ==
  [call EXCEPT !.pc = "failed", !.error = << wrapError(message) >>]

\* generateReactCode, up to its first await (or to its failure, when
\* mapToSaltComponents throws on a missing structure).
startCall(request, cache) ==
  LET call == [IdleCall EXCEPT !.request = << request >>] IN
  IF request.figmaData.structure = << >>
  THEN failCall(call, TypeErrorMessage("name"))
  ELSE LET components == mappedInputs[request.figmaData] IN
       continueCall([call EXCEPT !.saltComponents = components,
                                 !.types = componentTypes(components)],
                    cache, 1, << >>)

Init ==
  /\ exampleCache = [t \in {} |-> ""]
  /\ calls = [c \in Slots |-> IdleCall]
  /\ started = 0
  /\ qnaOk = [t \in {} |-> 0]
  /\ qnaFailed = {}
  /\ mapInput = << >>
  /\ mapOutput = << >>
  /\ applied = << >>

\* A caller invokes generateReactCode(request) in slot c.
Generate(c, request) ==
  /\ ~ InFlight(calls[c])
  /\ started < MaxCalls
  /\ started' = started + 1
  /\ calls' = [calls EXCEPT ![c] = startCall(request, exampleCache)]
  /\ UNCHANGED << exampleCache, qnaOk, qnaFailed, mapVars >>

\* The QnA request of call c resolves with outcome; the call runs on from
\* `await this.fetchExampleFromQnA(type)` to its next await.
QnaResolve(c, outcome) ==
  LET call    == calls[c]
      type    == call.types[call.idx]
      example == fetchExampleFromQnA(outcome)
      cache   == cacheAfterLookup(exampleCache, type, example)
      skipped == IF example = "" THEN call.qnaSkipped \cup {type} ELSE call.qnaSkipped
  IN /\ call.pc = "fetching"
     /\ exampleCache' = cache
     /\ qnaOk' = IF example # ""
                 THEN (type :> (IF type \in DOMAIN qnaOk THEN qnaOk[type] + 1 ELSE 1)) @@ qnaOk
                 ELSE qnaOk
     /\ qnaFailed' = IF example = "" THEN qnaFailed \cup {type} ELSE qnaFailed
     /\ calls' = [calls EXCEPT ![c] =
                    continueCall([call EXCEPT !.qnaSkipped = skipped], cache, call.idx + 1,
                                 examplesAfterLookup(call.examples, example))]
     /\ UNCHANGED << started, mapVars >>

\* generateReactCode of call c resumes after fetchRelevantExamples returned.
Resume(c) ==
  /\ calls[c].pc = "resuming"
  /\ calls' = [calls EXCEPT ![c] = resumeCall(calls[c])]
  /\ UNCHANGED << exampleCache, started, qnaOk, qnaFailed, mapVars >>

\* Mutant of completeCall: a failed completion request is sent once more.
completeCall_Retries(call, outcome) ==
  LET resolved == [call EXCEPT !.completion = outcome.kind] IN
  IF outcome.kind = "error" /\ call.llmRequests < 2
  THEN [resolved EXCEPT !.llmRequests = @ + 1]
  ELSE IF outcome.kind = "error" THEN failCall(resolved, RequestFailed)
  ELSE IF outcome.kind = "malformed"
       THEN failCall(resolved, TypeErrorMessage(outcome.reading))
  ELSE LET parsed == parsedResponses[outcome.content] IN
       IF parsed.threw
       THEN failCall([resolved EXCEPT !.response = << outcome.content >>], parsed.message)
       ELSE [resolved EXCEPT !.pc = "returned", !.response = << outcome.content >>,
                             !.result = << parsed.value >>]

\* callLLM and parseAndValidateCode on the outcome of the completion request.
completeCall(call, outcome) ==
  LET resolved == [call EXCEPT !.completion = outcome.kind] IN
  IF outcome.kind = "error" THEN failCall(resolved, RequestFailed)
  ELSE IF outcome.kind = "malformed"
       THEN failCall(resolved, TypeErrorMessage(outcome.reading))
  ELSE LET parsed == parsedResponses[outcome.content] IN
       IF parsed.threw
       THEN failCall([resolved EXCEPT !.response = << outcome.content >>], parsed.message)
       ELSE [resolved EXCEPT !.pc = "returned", !.response = << outcome.content >>,
                             !.result = << parsed.value >>]

\* Mutant of LlmResolve: a call that fails takes the examples it fetched
\* back out of the cache.
LlmResolve_RollsBackOnFailure(c, outcome) ==
  LET call == completeCall(calls[c], outcome)
      fetched == { calls[c].qnaIssued[j] : j \in 1..Len(calls[c].qnaIssued) }
  IN /\ calls[c].pc = "completing"
     /\ calls' = [calls EXCEPT ![c] = call]
     /\ exampleCache' = IF call.pc = "failed"
                        THEN [t \in DOMAIN exampleCache \ fetched |-> exampleCache[t]]
                        ELSE exampleCache
     /\ UNCHANGED << started, qnaOk, qnaFailed, mapVars >>

\* The completion request of call c resolves with outcome.
LlmResolve(c, outcome) ==
  /\ calls[c].pc = "completing"
  /\ calls' = [calls EXCEPT ![c] = completeCall(calls[c], outcome)]
  /\ UNCHANGED << exampleCache, started, qnaOk, qnaFailed, mapVars >>

Next ==
  \/ \E c \in Slots, request \in ConcurrentRequests : Generate(c, request)
  \/ \E c \in Slots, outcome \in QnaOutcomes : QnaResolve(c, outcome)
  \/ \E c \in Slots : Resume(c)
  \/ \E c \in Slots, outcome \in ConcurrentLlmOutcomes : LlmResolve(c, outcome)

Spec == Init /\ [][Next]_vars

\* The same generator when its callers make one call after the other: each
\* call is made when no call is in flight (and takes the first slot).
GenerateSeq(request) ==
  /\ \A d \in Slots : ~ InFlight(calls[d])
  /\ Generate(1, request)

NextSeq ==
  \/ \E request \in Requests : GenerateSeq(request)
  \/ \E c \in Slots, outcome \in QnaOutcomes : QnaResolve(c, outcome)
  \/ \E c \in Slots : Resume(c)
  \/ \E c \in Slots, outcome \in LlmOutcomes : LlmResolve(c, outcome)

SpecSeq == Init /\ [][NextSeq]_vars

(***************************************************************************)
(* The tree mapper on its own: mapToSaltComponents applied to a design     *)
(* tree of at most MaxNodes nodes, each of one of the shapes below.        *)
(***************************************************************************)
MaxNodes == 3

\* The nodes the trees are made of, before their children are set: a frame
\* with a vertical layout (a Stack), a frame without a layout (a Box), a
\* group and an instance whose name matches nothing (no mapping), a text
\* (a Text), a rectangle named "Submit Button" (a Button).
NodeShapes ==
  { [Node("FRAME", << >>, << >>) EXCEPT !.layout = Layout("VERTICAL")],
    Node("FRAME", << >>, << >>),
    Node("GROUP", << >>, << >>),
    Node("INSTANCE", <<"W","r","a","p","p","e","r">>, << >>),
    TextNode(<<"H","e","l","l","o">>),
    Node("RECTANGLE", <<"S","u","b","m","i","t"," ","B","u","t","t","o","n">>, << >>) }

\* The trees of n nodes, and the sequences of trees of n nodes in all.
RECURSIVE TreesOfSize(_)
RECURSIVE ForestsOfSize(_)
TreesOfSize(n) ==
  { [shape EXCEPT !.children = forest] :
      shape \in NodeShapes, forest \in ForestsOfSize(n - 1) }

ForestsOfSize(n) ==
  IF n = 0 THEN { << >> }
  ELSE UNION { { << tree >> \o forest :
                   tree \in TreesOfSize(m), forest \in ForestsOfSize(n - m) } :
               m \in 1..n }

\* The figmaData values handed to the mapper.
MapInputs ==
  UNION { { [structure |-> tree] : tree \in TreesOfSize(n) } : n \in 1..MaxNodes }

\* A caller invokes mapToSaltComponents(figmaData).
MapTree(figmaData) ==
  /\ mapInput = << >>
  /\ mapInput' = << figmaData >>
  /\ mapOutput' = << mapToSaltComponents(figmaData) >>
  /\ UNCHANGED << genVars, applied >>

NextMap == \E figmaData \in MapInputs : MapTree(figmaData)

SpecMap == Init /\ [][NextMap]_vars

(***************************************************************************)
(* Properties of the example cache and of generateReactCode                *)
(***************************************************************************)
\* The type whose lookup call is waiting for.
pendingType(call) == call.types[call.idx]

\* In this step, call c sends a QnA request for type t.
IssuesFetch(c, t) ==
  /\ calls'[c].pc = "fetching"
  /\ pendingType(calls'[c]) = t
  /\ (calls[c].pc # "fetching" \/ calls[c].idx < calls'[c].idx)

\* In this step, the lookup of call c for type t resolves.
ResolvesLookup(c, t) ==
  /\ calls[c].pc = "fetching"
  /\ pendingType(calls[c]) = t
  /\ calls'[c] # calls[c]

\* The loop of fetchRelevantExamples of this call is over.
LoopOver(call) ==
  call.pc \in {"resuming", "completing", "returned", "failed"} /\ call.saltComponents # << >>

\* C1: when calls are made one after the other, a type that is in the cache
\* is never looked up again (no step sends a QnA request for it), and no
\* type ever has more than one lookup that returned an example.
C1_CachedTypeIsNotFetchedAgain ==
  /\ [](\A t \in DOMAIN qnaOk : qnaOk[t] <= 1)
  /\ [][\A c \in Slots : \A t \in DOMAIN exampleCache : ~ IssuesFetch(c, t)]_vars

\* A second or later call found the type in the cache, after the one lookup
\* that returned an example for it, and sent no request.
C1_Witness ==
  \E c \in Slots :
    /\ started >= 2
    /\ calls[c].pc = "completing"
    /\ calls[c].qnaIssued = << >>
    /\ \E t \in calls[c].served : t \in DOMAIN qnaOk /\ qnaOk[t] = 1

\* C2: when calls are made one after the other, a lookup that fails or comes
\* back empty leaves the cache as it was, without an entry for the type; a
\* call takes an example from the cache only for a type that is in it, and
\* has, at the end of its loop, sent a request for every other type it asked
\* for: so the next call that asks for the type looks it up again.
C2_FailedLookupIsNotCached ==
  /\ [][\A c \in Slots : \A t \in calls'[c].qnaSkipped \ calls[c].qnaSkipped :
          ResolvesLookup(c, t) => exampleCache' = exampleCache /\ t \notin DOMAIN exampleCache']_vars
  /\ [][\A c \in Slots : \A t \in calls'[c].served :
          (calls'[c] # calls[c]) => t \in DOMAIN exampleCache]_vars
  /\ [](\A c \in Slots : LoopOver(calls[c]) =>
          \A k \in 1..Len(calls[c].types) :
             \/ calls[c].types[k] \in calls[c].served
             \/ \E j \in 1..Len(calls[c].qnaIssued) : calls[c].qnaIssued[j] = calls[c].types[k])

\* A type whose lookup failed in an earlier call is being looked up again
\* (the request of this call for it is still pending).
C2_Witness ==
  \E c \in Slots :
    /\ calls[c].pc = "fetching"
    /\ pendingType(calls[c]) \in qnaFailed
    /\ pendingType(calls[c]) \notin DOMAIN exampleCache

\* C3 as stated: an entry of the cache is never removed and never replaced
\* by a different text, in every interleaving of the calls.
C3_EntryNeverRemovedNorReplaced ==
  [][\A t \in DOMAIN exampleCache :
       t \in DOMAIN exampleCache' /\ exampleCache'[t] = exampleCache[t]]_vars

\* C3, amended: an entry of the cache is never removed; it is replaced only
\* when a lookup for its type that was already in flight resolves with an
\* example, and the entry is then that example (the last successful lookup
\* wins).
C3_EntryNeverRemovedLastWriterWins ==
  [][\A t \in DOMAIN exampleCache :
       /\ t \in DOMAIN exampleCache'
       /\ exampleCache'[t] # exampleCache[t] =>
            \E c \in Slots :
              /\ ResolvesLookup(c, t)
              /\ t \notin calls'[c].qnaSkipped
              /\ Len(calls'[c].examples) > Len(calls[c].examples)
              /\ calls'[c].examples[Len(calls[c].examples) + 1] = exampleCache'[t]]_vars

\* Two calls both looked the same type up and got different examples; the
\* cache holds one of them, the other call keeps the text it was given.
C3_Witness ==
  \E c, d \in Slots : \E t \in DOMAIN exampleCache :
    /\ c # d
    /\ calls[c].qnaIssued = << t >> /\ calls[d].qnaIssued = << t >>
    /\ calls[c].examples = << "example A" >>
    /\ calls[d].examples = << "example B" >>
    /\ qnaOk[t] = 2
    /\ exampleCache[t] = "example B"

\* The fields of a GeneratedCode.
ResultFields == {"code", "imports", "dependencies", "warnings"}

\* C4: a call that has ended either returned a result with the four fields
\* and threw nothing, or threw one wrapped error and returned nothing; a
\* call that has not ended has neither.
C4_CompleteResultOrError ==
  \A c \in Slots :
    /\ calls[c].pc = "returned" =>
         /\ Len(calls[c].result) = 1
         /\ DOMAIN calls[c].result[1] = ResultFields
         /\ calls[c].error = << >>
    /\ calls[c].pc = "failed" =>
         /\ calls[c].result = << >>
         /\ Len(calls[c].error) = 1
         /\ calls[c].error[1][1] = ErrorPrefix
    /\ calls[c].pc \notin {"returned", "failed"} =>
         calls[c].result = << >> /\ calls[c].error = << >>

\* A call returned a result whose imports and warnings are not empty.
C4_Witness ==
  \E c \in Slots :
    /\ calls[c].pc = "returned"
    /\ calls[c].result[1].imports # << >>
    /\ calls[c].result[1].warnings # << >>

\* C5: when the completion request of a call fails, the call has failed
\* with the wrapped cause and has sent exactly one completion request.
C5_CompletionFailureIsFatalNoRetry ==
  \A c \in Slots :
    calls[c].completion = "error" =>
      /\ calls[c].pc = "failed"
      /\ calls[c].error = << wrapError(RequestFailed) >>
      /\ calls[c].result = << >>
      /\ calls[c].llmRequests = 1

\* The completion request of a call failed, after its example lookups.
C5_Witness ==
  \E c \in Slots :
    /\ calls[c].completion = "error"
    /\ calls[c].qnaIssued # << >>

\* The text has a fenced block tagged ts, tsx, js or jsx: an opening fence
\* with its newline, and a fence at the start of a later line.
HasTaggedBlock(text) ==
  \E p \in 1..Len(text) :
    /\ openFenceEnd(text, p) # 0
    /\ \E q \in openFenceEnd(text, p)..Len(text) :
         /\ startsAt(text, q, <<BT, BT, BT>>)
         /\ text[q - 1] = NL

\* C6: when the completion text has no fenced block tagged ts, tsx, js or
\* jsx, the call has failed with the "no code block" error and has no
\* result; and the code of a result is never the completion text itself.
C6_NoCodeBlockIsFatal ==
  \A c \in Slots :
    /\ (calls[c].response # << >> /\ ~ HasTaggedBlock(calls[c].response[1])) =>
         /\ calls[c].pc = "failed"
         /\ calls[c].error = << wrapError(NoCodeBlockMessage) >>
         /\ calls[c].result = << >>
    /\ calls[c].pc = "returned" =>
         /\ HasTaggedBlock(calls[c].response[1])
         /\ calls[c].result[1].code # calls[c].response[1]

\* A completion text without a block (only a block with another tag) came
\* back, and the call failed.
C6_Witness ==
  \E c \in Slots :
    /\ calls[c].response = << ResponseOtherTag >>
    /\ calls[c].pc = "failed"

\* The warnings validateCode can give.
KnownWarnings == {WarnProvider, WarnTypes, WarnA11y, WarnErrors}

\* C7: a call that had a lookup fail or come back empty goes on: once its
\* loop is over it resumes and sends its completion request, with a prompt holding
\* exactly the examples of the types that were not skipped (one per type);
\* if it failed, the completion had resolved (the failure is the
\* completion's or the parser's); if it returned, its warnings are among
\* those of validateCode.
C7_FailedLookupIsNotFatal ==
  \A c \in Slots :
    (calls[c].qnaSkipped # {}) =>
      /\ calls[c].pc \in {"fetching", "resuming", "completing", "returned", "failed"}
      /\ calls[c].pc = "resuming" => calls[c].llmRequests = 0
      /\ calls[c].pc \in {"completing", "returned", "failed"} =>
           /\ calls[c].llmRequests = 1
           /\ calls[c].prompt[1].examples = calls[c].examples
           /\ Len(calls[c].examples) = Len(calls[c].types) - Cardinality(calls[c].qnaSkipped)
      /\ calls[c].pc = "failed" => calls[c].completion # "none"
      /\ calls[c].pc = "returned" =>
           \A k \in 1..Len(calls[c].result[1].warnings) :
              calls[c].result[1].warnings[k] \in KnownWarnings

\* A call with two types to look up had one lookup fail, and returned a
\* result built with the one example it got.
C7_Witness ==
  \E c \in Slots :
    /\ calls[c].pc = "returned"
    /\ Len(calls[c].types) = 2
    /\ Cardinality(calls[c].qnaSkipped) = 1
    /\ Len(calls[c].prompt[1].examples) = 1

\* Every type of a forest of components, descendants included.
RECURSIVE AllTypes(_)
AllTypes(components) ==
  IF components = << >> THEN {}
  ELSE {Head(components).type} \cup AllTypes(Head(components).children)
       \cup AllTypes(Tail(components))

\* C8: once the loop of fetchRelevantExamples is over, every type present
\* anywhere in the mapped tree was taken from the cache or looked up, and
\* the examples are at most one per distinct type.
C8_EveryTypeOfTheTreeIsConsidered ==
  \A c \in Slots :
    LoopOver(calls[c]) =>
      /\ \A t \in AllTypes(calls[c].saltComponents) :
           \/ t \in calls[c].served
           \/ \E j \in 1..Len(calls[c].qnaIssued) : calls[c].qnaIssued[j] = t
      /\ Len(calls[c].examples) <= Cardinality(AllTypes(calls[c].saltComponents))

(***************************************************************************)
(* Properties of the tree mapper                                           *)
(***************************************************************************)
\* The design tree handed to the mapper, and the roots it returned.
mappedTree == mapInput[1].structure
mappedRoots == mapOutput[1]

Classifiable(node) == detectComponentType(node) # NoMapping

\* The number of components of a forest of mapped components, and the
\* number of classifiable nodes of a forest of design nodes.
RECURSIVE CountComponents(_)
CountComponents(components) ==
  IF components = << >> THEN 0
  ELSE 1 + CountComponents(Head(components).children)
         + CountComponents(Tail(components))

RECURSIVE CountClassifiable(_)
CountClassifiable(nodes) ==
  IF nodes = << >> THEN 0
  ELSE (IF Classifiable(Head(nodes)) THEN 1 ELSE 0)
       + CountClassifiable(Head(nodes).children)
       + CountClassifiable(Tail(nodes))

\* A child of the root that is an unclassifiable wrapper around one
\* classifiable grandchild.
IsWrapper(node) ==
  /\ ~ Classifiable(node)
  /\ Len(node.children) = 1
  /\ Classifiable(node.children[1])

\* The component is the one created for the node (its children apart).
ComponentOf(component, node) ==
  /\ component.type = detectComponentType(node)
  /\ component.props = extractProps(node, detectComponentType(node))
  /\ component.content = (IF node.type = "TEXT" THEN node.text ELSE << >>)

\* C9: when the root is classifiable and one of its children is an
\* unclassifiable wrapper around one classifiable grandchild, the mapped
\* root has the grandchild's component among its direct children, and the
\* output has no node for the wrapper: it has as many components as the
\* design tree has classifiable nodes, and when the wrapper is the root's
\* only child the grandchild's component is the root's only child.
C9_WrapperIsFlattened ==
  mapOutput # << >> =>
    \A i \in 1..Len(mappedTree.children) :
      (Classifiable(mappedTree) /\ IsWrapper(mappedTree.children[i])) =>
        /\ Len(mappedRoots) = 1
        /\ ComponentOf(mappedRoots[1], mappedTree)
        /\ \E j \in 1..Len(mappedRoots[1].children) :
             ComponentOf(mappedRoots[1].children[j], mappedTree.children[i].children[1])
        /\ CountComponents(mappedRoots) = CountClassifiable(<< mappedTree >>)
        /\ Len(mappedTree.children) = 1 =>
             /\ Len(mappedRoots[1].children) = 1
             /\ ComponentOf(mappedRoots[1].children[1], mappedTree.children[1].children[1])

\* A frame whose only child is a group around one text was mapped.
C9_Witness ==
  /\ mapOutput # << >>
  /\ mappedTree.type = "FRAME"
  /\ Len(mappedTree.children) = 1
  /\ mappedTree.children[1].type = "GROUP"
  /\ IsWrapper(mappedTree.children[1])
  /\ mappedTree.children[1].children[1].type = "TEXT"
  /\ mappedRoots[1].children[1].type = "Text"

\* C10: the tree of a frame with a vertical layout over a text "Hello" and
\* a rectangle named "Submit Button" maps to exactly one root, a Stack,
\* with exactly two children, in this order: a Text with content "Hello"
\* and a Button with variant "primary" and size "medium".
C10_ScenarioMapsToStackTextButton ==
  (mapOutput # << >> /\ mappedTree = ScenarioTree) =>
    /\ Len(mappedRoots) = 1
    /\ mappedRoots[1].type = "Stack"
    /\ Len(mappedRoots[1].children) = 2
    /\ mappedRoots[1].children[1].type = "Text"
    /\ mappedRoots[1].children[1].content = <<"H","e","l","l","o">>
    /\ mappedRoots[1].children[1].children = << >>
    /\ mappedRoots[1].children[2].type = "Button"
    /\ mappedRoots[1].children[2].props.variant = "primary"
    /\ mappedRoots[1].children[2].props.size = "medium"
    /\ mappedRoots[1].children[2].children = << >>

\* The scenario's tree was mapped, to a root with children.
C10_Witness ==
  /\ mapOutput # << >>
  /\ mappedTree = ScenarioTree
  /\ Len(mappedRoots) = 1
  /\ Len(mappedRoots[1].children) = 2


(***************************************************************************)
(* The classifier on its own: detectComponentType applied to one node.     *)
(***************************************************************************)
\* Display names, each with the catalog components whose name it contains
\* when case is ignored.
ClassifyNames ==
  { [name |-> << >>,               hints |-> {}],
    [name |-> <<"H","e","a","d","e","r">>,            hints |-> {}],
    [name |-> <<"c","t","a">>,               hints |-> {}],
    [name |-> <<"H","e","r","o"," ","t","i","l","e">>,         hints |-> {}],
    [name |-> <<"B","u","y"," ","b","t","n">>, hints |-> {}],
    [name |-> <<"L","o","g","i","n"," ","m","o","d","a","l">>, hints |-> {}],
    [name |-> <<"S","e","a","r","c","h"," ","f","i","e","l","d">>, hints |-> {}],
    [name |-> <<"C","o","u","n","t","r","y"," ","s","e","l","e","c","t">>, hints |-> {}],
    [name |-> <<"S","u","b","m","i","t"," ","B","u","t","t","o","n">>,     hints |-> {"Button"}],
    [name |-> <<"P","R","I","M","A","R","Y"," ","B","U","T","T","O","N">>,    hints |-> {"Button"}],
    [name |-> <<"e","m","a","i","l"," ","i","n","p","u","t">>,       hints |-> {"Input"}],
    [name |-> <<"u","s","e","r"," ","c","a","r","d">>,         hints |-> {"Card"}],
    [name |-> <<"T","i","t","l","e"," ","t","e","x","t">>,        hints |-> {"Text"}],
    [name |-> <<"h","s","t","a","c","k">>,            hints |-> {"Stack"}],
    [name |-> <<"G","r","i","d">>,              hints |-> {"Grid"}],
    [name |-> <<"f","l","e","x","b","o","x">>,           hints |-> {"Flex"}],
    [name |-> <<"D","r","o","p","D","o","w","n">>,          hints |-> {"Dropdown"}],
    [name |-> <<"c","h","e","c","k","b","o","x">>,          hints |-> {"Checkbox"}],
    [name |-> <<"r","a","d","i","o">>,             hints |-> {"Radio"}],
    [name |-> <<"S","w","i","t","c","h">>,            hints |-> {"Switch"}],
    [name |-> <<"d","i","a","l","o","g">>,            hints |-> {"Dialog"}],
    [name |-> <<"T","A","B","S">>,              hints |-> {"Tabs"}],
    [name |-> <<"a","v","a","t","a","r">>,            hints |-> {"Avatar"}],
    [name |-> <<"B","a","d","g","e">>,             hints |-> {"Badge"}],
    [name |-> <<"t","o","o","l","t","i","p">>,           hints |-> {"Tooltip"}],
    [name |-> <<"T","e","x","t"," ","I","n","p","u","t">>,        hints |-> {"Text", "Input"}],
    [name |-> <<"R","a","d","i","o"," ","B","u","t","t","o","n">>,      hints |-> {"Radio", "Button"}],
    [name |-> <<"D","r","o","p","d","o","w","n"," ","i","n","p","u","t">>,    hints |-> {"Dropdown", "Input"}],
    [name |-> <<"C","a","r","d"," ","t","e","x","t"," ","t","o","o","l","t","i","p">>, hints |-> {"Card", "Text", "Tooltip"}] }

\* node.type: the kinds the classifier tells apart, and another kind.
NodeKinds == {"TEXT", "FRAME", "RECTANGLE", "COMPONENT", "INSTANCE", "VECTOR"}

\* node.layout: absent, or with one of three modes.
LayoutInputs == { << >>, Layout("VERTICAL"), Layout("HORIZONTAL"), Layout("NONE") }

\* node.cornerRadius: absent, 0 or 8.
RadiusInputs == { << >>, << 0 >>, << 8 >> }

ClassifyNode(type, name, layout, radius) ==
  [Node(type, name, << >>) EXCEPT !.layout = layout, !.cornerRadius = radius]

\* A caller invokes detectComponentType(node) (through createSaltComponent).
Classify(case, type, layout, radius) ==
  /\ applied = << >>
  /\ applied' = << [op     |-> "detectComponentType",
                    arg    |-> ClassifyNode(type, case.name, layout, radius),
                    case   |-> case,
                    result |-> detectComponentType(ClassifyNode(type, case.name, layout, radius))] >>
  /\ UNCHANGED << genVars, mapInput, mapOutput >>

NextClassify ==
  \E case \in ClassifyNames, type \in NodeKinds, layout \in LayoutInputs,
     radius \in RadiusInputs : Classify(case, type, layout, radius)

SpecClassify == Init /\ [][NextClassify]_vars

(***************************************************************************)
(* Properties of the classifier                                            *)
(***************************************************************************)
\* The place of a catalog component in componentMap.
catalogIndex(name) == CHOOSE i \in 1..Len(componentMap) : componentMap[i].name = name

\* C11 as stated: the classifier returns every catalog component whose name
\* the display name contains, whatever the kind of the node.
C11_NameHintIsReturned ==
  \A k \in 1..Len(applied) :
    applied[k].op = "detectComponentType" =>
      \A hint \in applied[k].case.hints : applied[k].result = hint

\* C11, amended: when the display name contains, case ignored, the name of
\* at least one catalog component, the classifier returns, whatever the
\* kind of the node, the first of those components in the declaration
\* order of the catalog: the one contained when there is only one.
C11_FirstNameHintIsReturned ==
  \A k \in 1..Len(applied) :
    (applied[k].op = "detectComponentType" /\ applied[k].case.hints # {}) =>
      /\ applied[k].result \in applied[k].case.hints
      /\ \A hint \in applied[k].case.hints :
           catalogIndex(applied[k].result) <= catalogIndex(hint)

\* A vector (a kind without a mapping of its own) named "Text Input" was
\* classified as Input, and not as Text.
C11_Witness ==
  /\ Len(applied) = 1
  /\ applied[1].op = "detectComponentType"
  /\ applied[1].arg.type = "VECTOR"
  /\ applied[1].case.hints = {"Text", "Input"}
  /\ applied[1].result = "Input"

\* C12: a frame whose name contains no catalog name is a Stack when its
\* layout mode is vertical, a Flex when it is horizontal, and otherwise a
\* Card when its corner radius is positive and a Box when it is not.
C12_FrameIsClassifiedByLayout ==
  \A k \in 1..Len(applied) :
    (/\ applied[k].op = "detectComponentType"
     /\ applied[k].arg.type = "FRAME"
     /\ applied[k].case.hints = {}) =>
      LET node == applied[k].arg
          mode == IF node.layout = << >> THEN "" ELSE node.layout[1].mode
          positive == node.cornerRadius # << >> /\ node.cornerRadius[1] > 0
      IN applied[k].result =
           (CASE mode = "VERTICAL" -> "Stack"
              [] mode = "HORIZONTAL" -> "Flex"
              [] mode \notin {"VERTICAL", "HORIZONTAL"} /\ positive -> "Card"
              [] OTHER -> "Box")

\* A frame named "Header", with a layout that is neither vertical nor
\* horizontal and a corner radius of 8, was classified as Card.
C12_Witness ==
  /\ Len(applied) = 1
  /\ applied[1].op = "detectComponentType"
  /\ applied[1].arg.type = "FRAME"
  /\ applied[1].case.hints = {}
  /\ applied[1].arg.name # << >>
  /\ applied[1].arg.layout = Layout("NONE")
  /\ applied[1].arg.cornerRadius = << 8 >>
  /\ applied[1].result = "Card"

(***************************************************************************)
(* mapSpacing on its own: applied to a pixel value, and to its own result. *)
(***************************************************************************)
MaxPixels == 64

\* A caller invokes mapSpacing(v) with a number.
MapSpacing(v) ==
  /\ applied = << >>
  /\ applied' = << [op |-> "mapSpacing", arg |-> << v >>, case |-> v,
                    result |-> mapSpacing(<< v >>)] >>
  /\ UNCHANGED << genVars, mapInput, mapOutput >>

\* The caller invokes mapSpacing on the bucket it was given.
MapSpacingAgain ==
  /\ Len(applied) = 1
  /\ applied[1].op = "mapSpacing"
  /\ applied' = Append(applied,
                       [op |-> "mapSpacing", arg |-> << applied[1].result >>,
                        case |-> applied[1].result,
                        result |-> mapSpacing(<< applied[1].result >>)])
  /\ UNCHANGED << genVars, mapInput, mapOutput >>

NextSpacing ==
  \/ \E v \in 0..MaxPixels : MapSpacing(v)
  \/ MapSpacingAgain

SpecSpacing == Init /\ [][NextSpacing]_vars

(***************************************************************************)
(* Properties of mapSpacing                                                *)
(***************************************************************************)
\* C13: the bucket of a pixel value v is 1 if v <= 4, 2 if v <= 8, 3 if
\* v <= 16, 4 if v <= 24, 5 if v <= 32 and 6 otherwise; the boundary values
\* 4, 8, 16, 24, 32 fall in the lower bucket and 33 in bucket 6; and no
\* smaller value has a larger bucket.
C13_SpacingBuckets ==
  \A k \in 1..Len(applied) :
    applied[k].op = "mapSpacing" =>
      LET v == applied[k].case
          bucket == applied[k].result
      IN /\ bucket = (CASE v <= 4 -> 1
                        [] v > 4 /\ v <= 8 -> 2
                        [] v > 8 /\ v <= 16 -> 3
                        [] v > 16 /\ v <= 24 -> 4
                        [] v > 24 /\ v <= 32 -> 5
                        [] OTHER -> 6)
         /\ (v = 4 => bucket = 1) /\ (v = 8 => bucket = 2)
         /\ (v = 16 => bucket = 3) /\ (v = 24 => bucket = 4)
         /\ (v = 32 => bucket = 5) /\ (v = 33 => bucket = 6)
         /\ \A w \in 0..v : mapSpacing(<< w >>) <= bucket

\* mapSpacing(33) returned 6.
C13_Witness ==
  /\ Len(applied) = 1
  /\ applied[1].op = "mapSpacing"
  /\ applied[1].case = 33
  /\ applied[1].result = 6

\* C14 as stated: mapSpacing applied to its own result gives that result.
C14_SpacingIsIdempotent ==
  (Len(applied) = 2 /\ applied[2].op = "mapSpacing") =>
    applied[2].result = applied[1].result

\* C14, amended: mapSpacing applied to its own result gives that result
\* exactly when the pixel value is at most 4 (bucket 1); for a larger value
\* it gives 1 when the value is at most 24 (buckets 2 to 4) and 2 otherwise
\* (buckets 5 and 6).
C14_SpacingOfBucket ==
  (Len(applied) = 2 /\ applied[2].op = "mapSpacing") =>
    /\ (applied[2].result = applied[1].result) <=> (applied[1].case <= 4)
    /\ applied[2].result = (IF applied[1].case <= 24 THEN 1 ELSE 2)

\* mapSpacing(8) returned 2, and mapSpacing(2) returned 1.
C14_Witness ==
  /\ Len(applied) = 2
  /\ applied[1].op = "mapSpacing"
  /\ applied[1].case = 8 /\ applied[1].result = 2
  /\ applied[2].case = 2 /\ applied[2].result = 1

(***************************************************************************)
(* The response parser on its own: parseAndValidateCode applied to a       *)
(* completion text made of import statements and a body.                   *)
(***************************************************************************)
MaxImports == 3

\* Import statements, as written in the code (without the semicolon): a
\* named import of a scoped package's subpath, a default import in double
\* quotes, a namespace import of an unscoped package's subpath, a named
\* import of a relative path, and a default import together with a named
\* one.  package is the external package the module path belongs to.
ImportStatements ==
  { [text |-> <<"i","m","p","o","r","t"," ","{"," ","B","u","t","t","o","n"," ","}"," ","f","r","o","m"," ","'","@","s","a","l","t","-","d","s","/","c","o","r","e","/","b","u","t","t","o","n","'">>,
     path |-> <<"@","s","a","l","t","-","d","s","/","c","o","r","e","/","b","u","t","t","o","n">>, package |-> << <<"@","s","a","l","t","-","d","s","/","c","o","r","e">> >>],
    [text |-> <<"i","m","p","o","r","t"," ","R","e","a","c","t"," ","f","r","o","m"," ",DQ,"r","e","a","c","t",DQ>>,
     path |-> <<"r","e","a","c","t">>, package |-> << <<"r","e","a","c","t">> >>],
    [text |-> <<"i","m","p","o","r","t"," ","*"," ","a","s"," ","f","p"," ","f","r","o","m"," ","'","l","o","d","a","s","h","/","f","p","'">>,
     path |-> <<"l","o","d","a","s","h","/","f","p">>, package |-> << <<"l","o","d","a","s","h">> >>],
    [text |-> <<"i","m","p","o","r","t"," ","{"," ","h","e","l","p","e","r"," ","}"," ","f","r","o","m"," ","'",".","/","l","o","c","a","l","'">>,
     path |-> <<".","/","l","o","c","a","l">>, package |-> << >>],
    [text |-> <<"i","m","p","o","r","t"," ","R","e","a","c","t",","," ","{"," ","u","s","e","S","t","a","t","e"," ","}"," ","f","r","o","m"," ","'","r","e","a","c","t","'">>,
     path |-> <<"r","e","a","c","t">>, package |-> << <<"r","e","a","c","t">> >>] }

\* The sequences of at most n import statements.
RECURSIVE StatementSeqs(_)
StatementSeqs(n) ==
  IF n = 0 THEN { << >> }
  ELSE StatementSeqs(n - 1)
       \cup { Append(seq, st) : seq \in { x \in StatementSeqs(n - 1) : Len(x) = n - 1 },
                                st \in ImportStatements }

\* What the body holds for each check of validateCode ("" is nothing).
ProviderMarks == { "", "SaltProvider" }
TypeMarks == { "", ": FC", "React.FC" }
A11yMarks == { "", "aria-", "role=" }
ErrorMarks == { "", "ErrorBoundary", "try", "catch" }

\* The line of the body that holds a mark.
MarkLine(mark) ==
  CASE mark = "SaltProvider"  -> <<"<","S","a","l","t","P","r","o","v","i","d","e","r",">","{","a","p","p","}","<","/","S","a","l","t","P","r","o","v","i","d","e","r",">",NL>>
    [] mark = ": FC"          -> <<"c","o","n","s","t"," ","A","p","p",":"," ","F","C"," ","="," ","(",")"," ","=",">"," ","n","u","l","l",";",NL>>
    [] mark = "React.FC"      -> <<"c","o","n","s","t"," ","A","p","p"," ","="," ","n","u","l","l"," ","a","s"," ","R","e","a","c","t",".","F","C","<","P",">",";",NL>>
    [] mark = "aria-"         -> <<"<","d","i","v"," ","a","r","i","a","-","l","a","b","e","l","=","'","x","'"," ","/",">",NL>>
    [] mark = "role="         -> <<"<","d","i","v"," ","r","o","l","e","=","'","m","a","i","n","'"," ","/",">",NL>>
    [] mark = "ErrorBoundary" -> <<"<","E","r","r","o","r","B","o","u","n","d","a","r","y"," ","/",">",NL>>
    [] mark = "try"           -> <<"t","r","y"," ","{"," ","r","u","n","(",")",";"," ","}"," ","f","i","n","a","l","l","y"," ","{"," ","}",NL>>
    [] mark = "catch"         -> <<"p","r","o","m","i","s","e",".","c","a","t","c","h","(","l","o","g",")",";",NL>>
    [] OTHER -> << >>

NoMarks == [provider |-> "", types |-> "", a11y |-> "", errors |-> ""]

\* The cases: every sequence of import statements with a body without
\* marks, and every combination of marks after one import statement.
ParseCases ==
  { [imports |-> seq, marks |-> NoMarks] : seq \in StatementSeqs(MaxImports) }
  \cup { [imports |-> << st >>, marks |-> marks] :
           st \in { x \in ImportStatements : x.package = << <<"@","s","a","l","t","-","d","s","/","c","o","r","e">> >> },
           marks \in [provider : ProviderMarks, types : TypeMarks,
                      a11y : A11yMarks, errors : ErrorMarks] }

RECURSIVE StatementLines(_)
StatementLines(seq) ==
  IF seq = << >> THEN << >>
  ELSE Head(seq).text \o <<";", NL>> \o StatementLines(Tail(seq))

\* The code of a case, and the completion text that carries it.
CaseCode(case) ==
  StatementLines(case.imports)
  \o MarkLine(case.marks.provider) \o MarkLine(case.marks.types)
  \o MarkLine(case.marks.a11y) \o MarkLine(case.marks.errors)
  \o <<"e","x","p","o","r","t"," ","d","e","f","a","u","l","t"," ","A","p","p",";">>

CaseResponse(case) == <<"H","e","r","e"," ","y","o","u"," ","g","o",":",NL,BT,BT,BT,"t","s","x",NL>> \o CaseCode(case) \o <<NL,BT,BT,BT,NL>>

\* generateReactCode hands the completion text to parseAndValidateCode.
ParseResponse(case) ==
  /\ applied = << >>
  /\ applied' = << [op |-> "parseAndValidateCode", arg |-> CaseResponse(case),
                    case |-> case,
                    result |-> parseAndValidateCode(CaseResponse(case))] >>
  /\ UNCHANGED << genVars, mapInput, mapOutput >>

NextParse == \E case \in ParseCases : ParseResponse(case)

SpecParse == Init /\ [][NextParse]_vars

(***************************************************************************)
(* Properties of the response parser                                       *)
(***************************************************************************)
RECURSIVE StatementTexts(_)
StatementTexts(seq) ==
  IF seq = << >> THEN << >> ELSE << Head(seq).text >> \o StatementTexts(Tail(seq))

\* C15: the imports of the result are the import statements of the code,
\* one entry per occurrence, in the order of the text, a repeated
\* statement being kept each time.
C15_EveryImportStatementIsExtracted ==
  \A k \in 1..Len(applied) :
    applied[k].op = "parseAndValidateCode" =>
      /\ ~ applied[k].result.threw
      /\ applied[k].result.value.imports = StatementTexts(applied[k].case.imports)

\* The external packages of the import lines of a result.
PackagesOf(lines) ==
  { st.package[1] : st \in { x \in ImportStatements :
        x.package # << >> /\ \E j \in 1..Len(lines) : lines[j] = x.text } }

\* C16: the dependencies of a result hold, once each, the packages of its
\* import lines: '@salt-ds/core' for '@salt-ds/core/button', 'lodash' for
\* 'lodash/fp', 'react' for 'react', and nothing for './local'.
C16_DependenciesOfImports ==
  \A k \in 1..Len(applied) :
    applied[k].op = "parseAndValidateCode" =>
      LET value == applied[k].result.value IN
      /\ ~ applied[k].result.threw
      /\ { value.dependencies[j] : j \in 1..Len(value.dependencies) }
           = PackagesOf(value.imports)
      /\ Len(value.dependencies) = Cardinality(PackagesOf(value.imports))

\* The code imported the scoped subpath twice and the relative path once:
\* three import lines, one dependency.
C16_Witness ==
  /\ Len(applied) = 1
  /\ applied[1].op = "parseAndValidateCode"
  /\ Len(applied[1].result.value.imports) = 3
  /\ applied[1].result.value.imports[1] = applied[1].result.value.imports[2]
  /\ applied[1].case.imports[3].package = << >>
  /\ applied[1].result.value.dependencies = << <<"@","s","a","l","t","-","d","s","/","c","o","r","e">> >>

\* C17: the warnings of a result are those of the four checks whose mark
\* the code lacks, each check on its own, in the order provider, types,
\* accessibility, error handling; and the parser does not throw, whatever
\* the checks give.
C17_WarningsOfIndependentChecks ==
  \A k \in 1..Len(applied) :
    applied[k].op = "parseAndValidateCode" =>
      LET marks == applied[k].case.marks IN
      /\ ~ applied[k].result.threw
      /\ applied[k].result.value.warnings =
           pushIf(marks.provider = "", WarnProvider)
           \o pushIf(marks.types = "", WarnTypes)
           \o pushIf(marks.a11y = "", WarnA11y)
           \o pushIf(marks.errors = "", WarnErrors)

\* The code had a provider and a role attribute, no type annotation and no
\* error handling: the result has the second and the fourth warning.
C17_Witness ==
  /\ Len(applied) = 1
  /\ applied[1].op = "parseAndValidateCode"
  /\ applied[1].case.marks.provider = "SaltProvider"
  /\ applied[1].case.marks.types = ""
  /\ applied[1].case.marks.a11y = "role="
  /\ applied[1].case.marks.errors = ""
  /\ applied[1].result.value.warnings = << WarnTypes, WarnErrors >>

(***************************************************************************)
(* CodeValidator.validateReactCode.  The code is << >> (undefined) or      *)
(* <<text>>; the result is [valid, errors, suggestions].                   *)
(***************************************************************************)
ErrMissingImports == "Missing Salt Design System imports"
ErrNotExported == "Component must be exported"
SuggestStyling == "Consider using CSS modules or styled-components for styling"
SuggestKeys == "Add key props to mapped elements"
ValidationFailedPrefix == "Code validation failed: "

\* const saltComponents = ['Button', 'Input', 'Card', 'Stack', 'Flex']
saltComponents ==
  << [name |-> "Button", chars |-> <<"B","u","t","t","o","n">>], [name |-> "Input", chars |-> <<"I","n","p","u","t">>],
     [name |-> "Card", chars |-> <<"C","a","r","d">>], [name |-> "Stack", chars |-> <<"S","t","a","c","k">>],
     [name |-> "Flex", chars |-> <<"F","l","e","x">>] >>

\* `${comp} component used but not imported from Salt`
usageError(comp) ==
  CASE comp = "Button" -> "Button component used but not imported from Salt"
    [] comp = "Input" -> "Input component used but not imported from Salt"
    [] comp = "Card" -> "Card component used but not imported from Salt"
    [] comp = "Stack" -> "Stack component used but not imported from Salt"
    [] comp = "Flex" -> "Flex component used but not imported from Salt"

\* The test of one component: the code has the text "<" + comp and has not
\* the text "import.*" + comp + ".*from.*@salt-ds" (the argument of
\* includes is a string: its dots and stars are characters of it).
usedButNotImported(code, chars) ==
  /\ includes(code, <<"<">> \o chars)
  /\ ~ includes(code, <<"i","m","p","o","r","t",".","*">> \o chars \o <<".","*","f","r","o","m",".","*","@","s","a","l","t","-","d","s">>)

\* Mutant of usageErrors: the loop starts at the second component.
RECURSIVE usageErrorsFrom(_, _)
usageErrors_SkipsFirst(code) == usageErrorsFrom(code, 2)

\* saltComponents.forEach(comp => { if (...) errors.push(...) })
usageErrorsFrom(code, i) ==
  IF i > Len(saltComponents) THEN << >>
  ELSE pushIf(usedButNotImported(code, saltComponents[i].chars),
              usageError(saltComponents[i].name))
       \o usageErrorsFrom(code, i + 1)

usageErrors(code) == usageErrorsFrom(code, 1)

\* The errors of steps 2 and 3.
structureErrors(code) ==
  pushIf(~ includes(code, <<"@","s","a","l","t","-","d","s","/","c","o","r","e">>), ErrMissingImports)
  \o pushIf(~ (includes(code, <<"e","x","p","o","r","t"," ","d","e","f","a","u","l","t">>) \/ includes(code, <<"e","x","p","o","r","t"," ","{">>)),
            ErrNotExported)

\* The suggestions of step 4.
styleSuggestions(code) ==
  pushIf(includes(code, <<"c","l","a","s","s","N","a","m","e","=">>) /\ ~ includes(code, <<"s","t","y","l","e","s",".">>), SuggestStyling)
  \o pushIf(~ includes(code, <<"k","e","y","=">>) /\ includes(code, <<".","m","a","p","(">>), SuggestKeys)

\* Mutant of validateReactCode: valid is computed before step 5.
validateReactCode_ValidBeforeUsage(code) ==
  IF code = << >>
  THEN [valid |-> FALSE,
        errors |-> << << ValidationFailedPrefix, TypeErrorMessage("includes") >> >>,
        suggestions |-> << >>]
  ELSE [valid       |-> structureErrors(code[1]) = << >>,
        errors      |-> structureErrors(code[1]) \o usageErrors(code[1]),
        suggestions |-> styleSuggestions(code[1])]

\* CodeValidator.validateReactCode.  On undefined, code.includes throws a
\* TypeError at step 2, before anything is pushed, and the catch returns.
validateReactCode(code) ==
  IF code = << >>
  THEN [valid |-> FALSE,
        errors |-> << << ValidationFailedPrefix, TypeErrorMessage("includes") >> >>,
        suggestions |-> << >>]
  ELSE LET errors == structureErrors(code[1]) \o usageErrors(code[1])
       IN [valid       |-> Len(errors) = 0,
           errors      |-> errors,
           suggestions |-> styleSuggestions(code[1])]

(***************************************************************************)
(* The validator on its own: validateReactCode applied to code made of at  *)
(* most MaxFragments of the lines below, in this order.                    *)
(***************************************************************************)
MaxFragments == 3

FragmentOrder ==
  << "importButton", "importCard", "patternButton", "tagButton", "tagInput",
     "tagCard", "tagStack", "tagFlex", "className", "styles", "map", "key",
     "exportDefault", "exportNamed" >>

FragmentText(id) ==
  CASE id = "importButton"  -> <<"i","m","p","o","r","t"," ","{"," ","B","u","t","t","o","n"," ","}"," ","f","r","o","m"," ","'","@","s","a","l","t","-","d","s","/","c","o","r","e","'",";",NL>>
    [] id = "importCard"    -> <<"i","m","p","o","r","t"," ","{"," ","C","a","r","d"," ","}"," ","f","r","o","m"," ","'","@","s","a","l","t","-","d","s","/","c","o","r","e","'",";",NL>>
    [] id = "patternButton" -> <<"/","/"," ","i","m","p","o","r","t",".","*","B","u","t","t","o","n",".","*","f","r","o","m",".","*","@","s","a","l","t","-","d","s",NL>>
    [] id = "tagButton"     -> <<"c","o","n","s","t"," ","a"," ","="," ","<","B","u","t","t","o","n",">","O","K","<","/","B","u","t","t","o","n",">",";",NL>>
    [] id = "tagInput"      -> <<"c","o","n","s","t"," ","b"," ","="," ","<","I","n","p","u","t"," ","/",">",";",NL>>
    [] id = "tagCard"       -> <<"c","o","n","s","t"," ","c"," ","="," ","<","C","a","r","d",">","<","/","C","a","r","d",">",";",NL>>
    [] id = "tagStack"      -> <<"c","o","n","s","t"," ","d"," ","="," ","<","S","t","a","c","k","L","a","y","o","u","t"," ","/",">",";",NL>>
    [] id = "tagFlex"       -> <<"c","o","n","s","t"," ","e"," ","="," ","<","F","l","e","x"," ","g","a","p","=","{","1","}"," ","/",">",";",NL>>
    [] id = "className"     -> <<"c","o","n","s","t"," ","f"," ","="," ","<","d","i","v"," ","c","l","a","s","s","N","a","m","e","=","'","x","'"," ","/",">",";",NL>>
    [] id = "styles"        -> <<"c","o","n","s","t"," ","g"," ","="," ","s","t","y","l","e","s",".","r","o","o","t",";",NL>>
    [] id = "map"           -> <<"c","o","n","s","t"," ","h"," ","="," ","i","t","e","m","s",".","m","a","p","(","r","e","n","d","e","r",")",";",NL>>
    [] id = "key"           -> <<"c","o","n","s","t"," ","i"," ","="," ","<","l","i"," ","k","e","y","=","{","1","}"," ","/",">",";",NL>>
    [] id = "exportDefault" -> <<"e","x","p","o","r","t"," ","d","e","f","a","u","l","t"," ","A","p","p",";",NL>>
    [] id = "exportNamed"   -> <<"e","x","p","o","r","t"," ","{"," ","A","p","p"," ","}",";",NL>>

Fragments == { FragmentOrder[i] : i \in 1..Len(FragmentOrder) }

RECURSIVE FragmentsText(_, _)
FragmentsText(chosen, i) ==
  IF i > Len(FragmentOrder) THEN << >>
  ELSE (IF FragmentOrder[i] \in chosen THEN FragmentText(FragmentOrder[i]) ELSE << >>)
       \o FragmentsText(chosen, i + 1)

\* The cases: undefined, and the sets of at most MaxFragments lines.
ValidatorCases ==
  { [defined |-> FALSE, chosen |-> {}] }
  \cup { [defined |-> TRUE, chosen |-> chosen] :
           chosen \in { x \in SUBSET Fragments : Cardinality(x) <= MaxFragments } }

ValidatorCode(case) ==
  IF case.defined THEN << FragmentsText(case.chosen, 1) >> ELSE << >>

\* A caller invokes validateReactCode(code).
ValidateReactCode(case) ==
  /\ applied = << >>
  /\ applied' = << [op |-> "validateReactCode", arg |-> ValidatorCode(case),
                    case |-> case,
                    result |-> validateReactCode(ValidatorCode(case))] >>
  /\ UNCHANGED << genVars, mapInput, mapOutput >>

NextValidator == \E case \in ValidatorCases : ValidateReactCode(case)

SpecValidator == Init /\ [][NextValidator]_vars

(***************************************************************************)
(* The properties of validateReactCode.                                    *)
(***************************************************************************)
ValidatorCalls == { i \in DOMAIN applied : applied[i].op = "validateReactCode" }

ButtonError == "Button component used but not imported from Salt"

\* The error that names each component the validator tests, and the line
\* of the cases that uses its tag.
ComponentChecks ==
  { [tag |-> "tagButton", error |-> ButtonError],
    [tag |-> "tagInput",  error |-> "Input component used but not imported from Salt"],
    [tag |-> "tagCard",   error |-> "Card component used but not imported from Salt"],
    [tag |-> "tagStack",  error |-> "Stack component used but not imported from Salt"],
    [tag |-> "tagFlex",   error |-> "Flex component used but not imported from Salt"] }

TagFragments == { c.tag : c \in ComponentChecks }

Occurrences(seq, e) == Cardinality({ i \in DOMAIN seq : seq[i] = e })

\* C18: code that has the tag <Button and no line that imports Button
\* (no import statement, and no text of the form import.*Button.*from.*@salt-ds)
\* gets exactly one error that names Button.
C18_ButtonWithoutImportIsOneError ==
  \A i \in ValidatorCalls :
    ( /\ applied[i].case.defined
      /\ "tagButton" \in applied[i].case.chosen
      /\ "importButton" \notin applied[i].case.chosen
      /\ "patternButton" \notin applied[i].case.chosen )
    => Occurrences(applied[i].result.errors, ButtonError) = 1

\* The validator was given <Button with an import of Card only and an
\* export, and reported the one error.
C18_Witness ==
  \E i \in ValidatorCalls :
    /\ applied[i].case.chosen = {"importCard", "tagButton", "exportDefault"}
    /\ applied[i].result.errors = << ButtonError >>

\* C19: an error that names a component is reported only when the code uses
\* the component's tag, and code that uses <Button and imports Button from
\* '@salt-ds/core' gets no error that names Button.
C19_NoErrorForImportedComponent ==
  \A i \in ValidatorCalls :
    applied[i].case.defined =>
      /\ \A c \in ComponentChecks :
           Occurrences(applied[i].result.errors, c.error) > 0
             => c.tag \in applied[i].case.chosen
      /\ ( {"tagButton", "importButton"} \subseteq applied[i].case.chosen
           => Occurrences(applied[i].result.errors, ButtonError) = 0 )

\* C20: valid is true exactly when the errors list is empty; code with
\* 'export default', a '@salt-ds/core' import and no tag of a tested
\* component is valid with no errors; the lines that only add suggestions
\* leave valid as it is without them.
C20_ValidIffNoErrors ==
  \A i \in ValidatorCalls :
    LET case == applied[i].case
        result == applied[i].result
    IN /\ result.valid = (result.errors = << >>)
       /\ ( /\ case.defined
            /\ "exportDefault" \in case.chosen
            /\ case.chosen \cap {"importButton", "importCard"} # {}
            /\ case.chosen \cap TagFragments = {} )
          => (result.valid /\ result.errors = << >>)
       /\ case.defined =>
            result.valid =
              validateReactCode(ValidatorCode(
                [case EXCEPT !.chosen = @ \ {"className", "map"}])).valid

\* The validator was given code with an import, an export and a raw class
\* name, and returned valid with no errors and one suggestion.
C20_Witness ==
  \E i \in ValidatorCalls :
    /\ applied[i].case.chosen = {"importCard", "className", "exportDefault"}
    /\ applied[i].result.valid
    /\ applied[i].result.errors = << >>
    /\ applied[i].result.suggestions = << SuggestStyling >>

(***************************************************************************)
(* Further properties of the tree mapper                                   *)
(***************************************************************************)
\* C21: every node of every mapped tree returned by mapToSaltComponents has
\* a type that is a key of componentMap.
C21_EveryMappedTypeIsACatalogKey ==
  mapOutput # << >> => AllTypes(mappedRoots) \subseteq CatalogNames

\* The classifiable nodes of a forest of design nodes in pre-order, each
\* with the position in this list of its nearest classifiable proper
\* ancestor (0 when it has none), added to acc.
RECURSIVE ClassifiableWalk(_, _, _)
ClassifiableWalk(nodes, parent, acc) ==
  IF nodes = << >> THEN acc
  ELSE LET node == Head(nodes)
           own == Append(acc, [node |-> node, parent |-> parent])
       IN ClassifiableWalk(Tail(nodes), parent,
            IF Classifiable(node)
            THEN ClassifiableWalk(node.children, Len(own), own)
            ELSE ClassifiableWalk(node.children, parent, acc))

\* The components of a forest of mapped components in pre-order, each with
\* the position in this list of its parent (0 for a root), added to acc.
RECURSIVE ComponentWalk(_, _, _)
ComponentWalk(components, parent, acc) ==
  IF components = << >> THEN acc
  ELSE LET own == Append(acc, [component |-> Head(components), parent |-> parent])
       IN ComponentWalk(Tail(components), parent,
            ComponentWalk(Head(components).children, Len(own), own))

\* C22: the mapped components, in pre-order, are one for one the components
\* of the classifiable design nodes in pre-order (an unclassifiable node has
\* none), and the parent of each is the component of the nearest
\* classifiable proper ancestor of its node, or none (a root) when the node
\* has no classifiable ancestor; so roots and children keep the order of
\* the design tree.
C22_MappedTreeMirrorsClassifiableNodes ==
  mapOutput # << >> =>
    LET design == ClassifiableWalk(<< mappedTree >>, 0, << >>)
        mapped == ComponentWalk(mappedRoots, 0, << >>)
    IN /\ Len(mapped) = Len(design)
       /\ \A k \in 1..Len(mapped) :
            /\ ComponentOf(mapped[k].component, design[k].node)
            /\ mapped[k].parent = design[k].parent

\* A group over a text and a rectangle named "Submit Button" was mapped to
\* two roots, the Text before the Button.
C22_Witness ==
  /\ mapOutput # << >>
  /\ mappedTree.type = "GROUP"
  /\ Len(mappedTree.children) = 2
  /\ mappedTree.children[1].type = "TEXT"
  /\ mappedTree.children[2].type = "RECTANGLE"
  /\ Len(mappedRoots) = 2
  /\ mappedRoots[1].type = "Text"
  /\ mappedRoots[2].type = "Button"

(***************************************************************************)
(* The order of the requests of one generateReactCode call                 *)
(***************************************************************************)
\* The examples the cache holds after the step for types[from..to-1].
CachedRun(types, from, to) ==
  [k \in 1..(to - from) |-> exampleCache'[types[from + k - 1]]]

\* Where the loop of a call stands after a step that ran it on from
\* position from: the types from there to idx were all cached, and the call
\* awaits a lookup of an uncached type or, at the end, its resumption.
LoopStopsAt(new, from) ==
  /\ new.idx \in from..(Len(new.types) + 1)
  /\ \A k \in from..(new.idx - 1) : new.types[k] \in DOMAIN exampleCache'
  /\ IF new.idx <= Len(new.types)
     THEN /\ new.pc = "fetching"
          /\ new.types[new.idx] \notin DOMAIN exampleCache'
          /\ new.llmRequests = 0
     ELSE /\ new.pc = "resuming"
          /\ new.llmRequests = 0
          /\ new.prompt = << >>

\* What a step does to the examples of the call in slot c: a new call
\* starts with the cached examples of its first types; a resolved lookup
\* adds its example (if any) and the cached examples of the types that
\* follow; once the loop is over nothing is looked up.
ExamplesAreTheLookedUp(c) ==
  LET old == calls[c]
      new == calls'[c]
  IN /\ (~ InFlight(old) /\ new # old /\ new.pc # "failed") =>
          /\ LoopStopsAt(new, 1)
          /\ new.examples = CachedRun(new.types, 1, new.idx)
     /\ (old.pc = "fetching" /\ new # old) =>
          /\ LoopStopsAt(new, old.idx + 1)
          /\ \E e \in ExampleTexts \cup {""} :
               /\ e # "" => exampleCache'[old.types[old.idx]] = e
               /\ e = "" => exampleCache' = exampleCache
               /\ new.examples =
                    old.examples \o (IF e = "" THEN << >> ELSE << e >>)
                    \o CachedRun(new.types, old.idx + 1, new.idx)
     /\ old.pc \in {"resuming", "completing"} =>
          /\ new.examples = old.examples
          /\ new.qnaIssued = old.qnaIssued
     /\ old.pc = "completing" => new.llmRequests = old.llmRequests

\* The completion request is sent once, when no lookup of the call is
\* pending and every type was taken from the cache or looked up, and its
\* prompt holds the examples obtained.
CompletionAfterLookups(c) ==
  calls'[c].llmRequests # calls[c].llmRequests /\ calls'[c].llmRequests > 0 =>
    /\ calls'[c].llmRequests = 1
    /\ calls[c].pc = "resuming"
    /\ calls'[c].pc = "completing"
    /\ calls'[c].idx = Len(calls'[c].types) + 1
    /\ \A k \in 1..Len(calls'[c].types) :
         \/ calls'[c].types[k] \in calls'[c].served
         \/ \E j \in 1..Len(calls'[c].qnaIssued) : calls'[c].qnaIssued[j] = calls'[c].types[k]
    /\ calls'[c].prompt # << >>
    /\ calls'[c].prompt[1].examples = calls'[c].examples

\* The call in slot c returns or fails on this step.
Settles(c) ==
  /\ calls'[c].pc \in {"returned", "failed"}
  /\ calls'[c] # calls[c]

\* C23 as stated: the completion request is issued only after every example
\* lookup of the call has resolved, with a prompt that holds exactly the
\* examples obtained, and the call returns or fails only after the
\* completion request has resolved.
C23_SettlesOnlyAfterCompletion ==
  [][ \A c \in Slots :
        /\ ExamplesAreTheLookedUp(c)
        /\ CompletionAfterLookups(c)
        /\ Settles(c) =>
             /\ calls[c].pc = "completing"
             /\ calls'[c].completion # "none" ]_vars

\* C23 amended: the same, except that a call may also fail before it issues
\* any request, when mapToSaltComponents throws on its design tree.
C23_SettlesAfterCompletionOrBeforeAnyRequest ==
  [][ \A c \in Slots :
        /\ ExamplesAreTheLookedUp(c)
        /\ CompletionAfterLookups(c)
        /\ Settles(c) =>
             \/ /\ calls[c].pc = "completing"
                /\ calls'[c].completion # "none"
             \/ /\ calls'[c].pc = "failed"
                /\ calls'[c].request[1].figmaData.structure = << >>
                /\ calls'[c].qnaIssued = << >>
                /\ calls'[c].llmRequests = 0 ]_vars

\* A call over two types returned after taking one example from the cache
\* and looking the other up, with both examples in its prompt.
C23_Witness ==
  \E c \in Slots :
    /\ calls[c].pc = "returned"
    /\ calls[c].completion = "text"
    /\ Len(calls[c].types) = 2
    /\ calls[c].served # {}
    /\ Len(calls[c].qnaIssued) = 1
    /\ calls[c].qnaSkipped = {}
    /\ Len(calls[c].examples) = 2
    /\ calls[c].prompt[1].examples = calls[c].examples

(***************************************************************************)
(* Further properties of the classifier                                    *)
(***************************************************************************)
ClassifyCalls == { k \in DOMAIN applied : applied[k].op = "detectComponentType" }

\* The first component, in the declaration order of componentMap, among a
\* non-empty set of catalog names.
FirstInCatalog(names) ==
  componentMap[CHOOSE i \in 1..Len(componentMap) :
                 /\ componentMap[i].name \in names
                 /\ \A j \in 1..(i - 1) : componentMap[j].name \notin names].name

\* C24: when the display name contains the names of several catalog
\* components, the classifier returns the first of them in the declaration
\* order of componentMap, whatever the kind, layout and radius of the node;
\* a name containing "input" and "dropdown" (and no earlier name) gives
\* Input.
C24_FirstOfSeveralHintsInCatalogOrder ==
  \A k \in ClassifyCalls :
    Cardinality(applied[k].case.hints) >= 2 =>
      /\ applied[k].result = FirstInCatalog(applied[k].case.hints)
      /\ applied[k].case.hints = {"Input", "Dropdown"} => applied[k].result = "Input"

\* A frame with a vertical layout named "Dropdown input" was classified as
\* Input.
C24_Witness ==
  \E k \in ClassifyCalls :
    /\ applied[k].case.hints = {"Dropdown", "Input"}
    /\ applied[k].arg.type = "FRAME"
    /\ applied[k].arg.layout = Layout("VERTICAL")
    /\ applied[k].result = "Input"

\* The display names of the cases that contain no catalog name but one of
\* the extended keywords, with the component the keyword stands for.
KeywordNames ==
  { [name |-> <<"c","t","a">>, component |-> "Button"],
    [name |-> <<"B","u","y"," ","b","t","n">>, component |-> "Button"],
    [name |-> <<"S","e","a","r","c","h"," ","f","i","e","l","d">>, component |-> "Input"],
    [name |-> <<"C","o","u","n","t","r","y"," ","s","e","l","e","c","t">>, component |-> "Dropdown"],
    [name |-> <<"H","e","r","o"," ","t","i","l","e">>, component |-> "Card"],
    [name |-> <<"L","o","g","i","n"," ","m","o","d","a","l">>, component |-> "Dialog"] }

KeywordOf(name) ==
  IF \E e \in KeywordNames : e.name = name
  THEN (CHOOSE e \in KeywordNames : e.name = name).component
  ELSE NoMapping

PositiveRadius(node) == node.cornerRadius # << >> /\ node.cornerRadius[1] > 0

\* C25: a rectangle whose name contains no catalog name is a Button when the
\* name contains "button", "btn" or "cta", otherwise a Card when its corner
\* radius is positive, otherwise a Box.
C25_RectangleButtonCardOrBox ==
  \A k \in ClassifyCalls :
    (applied[k].arg.type = "RECTANGLE" /\ applied[k].case.hints = {}) =>
      applied[k].result =
        (IF KeywordOf(applied[k].case.name) = "Button" THEN "Button"
         ELSE IF PositiveRadius(applied[k].arg) THEN "Card"
         ELSE "Box")

\* C26: the classifier returns no mapping exactly for a node whose name
\* contains no catalog name and that is either a component or an instance
\* whose name contains none of the extended keywords, or of a kind other
\* than text, frame, rectangle, component and instance; a component or an
\* instance named with an extended keyword gets the keyword's component:
\* Dialog for "modal", Card for "tile".
C26_NoMappingCases ==
  \A k \in ClassifyCalls :
    LET node == applied[k].arg
        case == applied[k].case
        instance == node.type \in {"COMPONENT", "INSTANCE"}
    IN /\ applied[k].result = NoMapping <=>
            /\ case.hints = {}
            /\ \/ instance /\ KeywordOf(case.name) = NoMapping
               \/ node.type \notin {"TEXT", "FRAME", "RECTANGLE", "COMPONENT", "INSTANCE"}
       /\ (instance /\ case.hints = {} /\ KeywordOf(case.name) # NoMapping) =>
            applied[k].result = KeywordOf(case.name)
       /\ (instance /\ case.name = <<"L","o","g","i","n"," ","m","o","d","a","l">>) => applied[k].result = "Dialog"
       /\ (instance /\ case.name = <<"H","e","r","o"," ","t","i","l","e">>) => applied[k].result = "Card"

\* A component named "Header", with a corner radius of 8, got no mapping.
C26_Witness ==
  \E k \in ClassifyCalls :
    /\ applied[k].arg.type = "COMPONENT"
    /\ applied[k].arg.name = <<"H","e","a","d","e","r">>
    /\ applied[k].arg.cornerRadius = << 8 >>
    /\ applied[k].result = NoMapping

(***************************************************************************)
(* The props of one node: createSaltComponent applied to a node that is    *)
(* classified as Button, as Input, or as Stack or Flex.                    *)
(***************************************************************************)
MaxWords == 3

\* The words a display name is made of, in the order they are written.
NameWords == << "primary", "secondary", "ghost", "text", "small", "large",
                "email", "password", "search", "name" >>

WordText(word) ==
  CASE word = "primary"   -> <<"P","r","i","m","a","r","y"," ">>
    [] word = "secondary" -> <<"S","E","C","O","N","D","A","R","Y"," ">>
    [] word = "ghost"     -> <<"G","h","o","s","t"," ">>
    [] word = "text"      -> <<"t","e","x","t"," ">>
    [] word = "small"     -> <<"S","m","a","l","l"," ">>
    [] word = "large"     -> <<"L","A","R","G","E"," ">>
    [] word = "email"     -> <<"E","m","a","i","l"," ">>
    [] word = "password"  -> <<"P","A","S","S","W","O","R","D"," ">>
    [] word = "search"    -> <<"s","e","a","r","c","h"," ">>
    [] word = "name"      -> <<"N","a","m","e"," ">>

RECURSIVE WordsText(_, _)
WordsText(words, i) ==
  IF i > Len(NameWords) THEN << >>
  ELSE (IF NameWords[i] \in words THEN WordText(NameWords[i]) ELSE << >>)
       \o WordsText(words, i + 1)

WordSets(all) == { w \in SUBSET all : Cardinality(w) <= MaxWords }

\* node.fills: absent, a fill without a colour, a fill with a colour.
FillInputs ==
  { << >>, << [color |-> "", opacity |-> << >>] >>,
    << [color |-> "#0055ff", opacity |-> << OpacityOne >>] >> }

\* node.absoluteBoundingBox?.height: absent, or around the two thresholds.
HeightInputs == { << >> } \cup { << h >> : h \in {0, 31, 32, 40, 48, 49} }

\* node.children of an input: none, a text, a rectangle and then a text.
FieldChildren ==
  { << >>, << TextNode(<<"Y","o","u","r"," ","v","a","l","u","e">>) >>,
    << Node("RECTANGLE", << >>, << >>), TextNode(<<"Y","o","u","r"," ","v","a","l","u","e">>) >> }

\* node.layout.gap: absent, or a number.
GapInputs == { << >> } \cup { << g >> : g \in (0 - 1)..MaxPixels }

ButtonCases ==
  { [kind |-> "button", words |-> words,
     node |-> [Node("RECTANGLE", WordsText(words, 1) \o <<"B","u","t","t","o","n">>, << >>)
               EXCEPT !.fills = fills, !.height = height]] :
      words \in WordSets({"primary", "secondary", "ghost", "text", "small", "large"}),
      fills \in FillInputs, height \in HeightInputs }

FieldCases ==
  { [kind |-> "field", words |-> words,
     node |-> Node("RECTANGLE", WordsText(words, 1) \o <<"i","n","p","u","t">>, children)] :
      words \in { w \in WordSets({"email", "password", "search", "name"}) :
                    Cardinality(w) <= 2 },
      children \in FieldChildren }

ContainerCases ==
  { [kind |-> "container", words |-> {},
     node |-> [Node("FRAME", << >>, << >>) EXCEPT
                 !.layout = << [mode |-> mode, gap |-> gap, align |-> "CENTER",
                                justify |-> "MIN"] >>]] :
      mode \in {"VERTICAL", "HORIZONTAL"}, gap \in GapInputs }
  \cup { [kind |-> "container", words |-> {},
          node |-> Node("FRAME", <<"h","s","t","a","c","k">>, << >>)] }

PropsCases == ButtonCases \cup FieldCases \cup ContainerCases

\* processNode invokes createSaltComponent(node).
CreateSaltComponent(case) ==
  /\ applied = << >>
  /\ applied' = << [op |-> "createSaltComponent", arg |-> case.node,
                    case |-> case, result |-> createSaltComponent(case.node)] >>
  /\ UNCHANGED << genVars, mapInput, mapOutput >>

NextProps == \E case \in PropsCases : CreateSaltComponent(case)

SpecProps == Init /\ [][NextProps]_vars

(***************************************************************************)
(* Properties of the props                                                 *)
(***************************************************************************)
\* The calls that returned a component of the given type.
CreatedOfType(type) ==
  { k \in DOMAIN applied :
      /\ applied[k].op = "createSaltComponent"
      /\ applied[k].result # << >>
      /\ applied[k].result[1].type = type }

HasFillColour(node) == node.fills # << >> /\ node.fills[1].color # ""
HeightBelow(node, h) == node.height # << >> /\ node.height[1] < h
HeightAbove(node, h) == node.height # << >> /\ node.height[1] > h

\* C27: for every node classified as Button, variant is "primary" if the
\* name contains "primary" or the node has a fill colour, else "secondary"
\* if the name contains "secondary", else "ghost" if it contains "ghost" or
\* "text", else "primary"; size is "small" if the height is below 32 or the
\* name contains "small", else "large" if the height is above 48 or the
\* name contains "large", else "medium", also without a bounding box.
C27_ButtonVariantAndSize ==
  \A k \in CreatedOfType("Button") :
    LET words == applied[k].case.words
        node == applied[k].arg
        props == applied[k].result[1].props
    IN /\ props.variant =
            (IF "primary" \in words \/ HasFillColour(node) THEN "primary"
             ELSE IF "secondary" \in words THEN "secondary"
             ELSE IF "ghost" \in words \/ "text" \in words THEN "ghost"
             ELSE "primary")
       /\ props.size =
            (IF HeightBelow(node, 32) \/ "small" \in words THEN "small"
             ELSE IF HeightAbove(node, 48) \/ "large" \in words THEN "large"
             ELSE "medium")

\* A rectangle named "SECONDARY text LARGE Button", with a fill that has no
\* colour and no bounding box, became a secondary large Button.
C27_Witness ==
  \E k \in CreatedOfType("Button") :
    /\ applied[k].case.kind = "button"
    /\ applied[k].case.words = {"secondary", "text", "large"}
    /\ applied[k].arg.fills # << >>
    /\ ~ HasFillColour(applied[k].arg)
    /\ applied[k].arg.height = << >>
    /\ applied[k].result[1].props.variant = "secondary"
    /\ applied[k].result[1].props.size = "large"

\* The literal text of the first text child of a node, << >> without one.
FirstTextChild(node) ==
  LET texts == { i \in DOMAIN node.children : node.children[i].type = "TEXT" }
  IN IF texts = {} THEN << >>
     ELSE node.children[CHOOSE i \in texts : \A j \in texts : i <= j].text

\* C28: for every node classified as Input, placeholder is "Enter email
\* address" if the name contains "email", else "Enter password" for
\* "password", else "Search..." for "search", else "Enter your name" for
\* "name", else the text of the first text child if there is one, else
\* "Enter text...".
C28_PlaceholderByKeyword ==
  \A k \in CreatedOfType("Input") :
    LET words == applied[k].case.words
        node == applied[k].arg
    IN applied[k].result[1].props.placeholder =
         (IF "email" \in words THEN <<"E","n","t","e","r"," ","e","m","a","i","l"," ","a","d","d","r","e","s","s">>
          ELSE IF "password" \in words THEN <<"E","n","t","e","r"," ","p","a","s","s","w","o","r","d">>
          ELSE IF "search" \in words THEN <<"S","e","a","r","c","h",".",".",".">>
          ELSE IF "name" \in words THEN <<"E","n","t","e","r"," ","y","o","u","r"," ","n","a","m","e">>
          ELSE IF FirstTextChild(node) # << >> THEN FirstTextChild(node)
          ELSE <<"E","n","t","e","r"," ","t","e","x","t",".",".",".">>)

(***************************************************************************)
(* The example cache across a failed call                                  *)
(***************************************************************************)
\* The types a call looked up with success.
FetchedBy(call) ==
  { call.qnaIssued[j] : j \in 1..Len(call.qnaIssued) } \ call.qnaSkipped

\* The call of slot c fails on this step, after its completion request.
FailsAfterCompletion(c) ==
  /\ calls[c].pc = "completing"
  /\ calls'[c].pc = "failed"

\* C29: when a call fails after its completion request (request error,
\* malformed body or missing code block), the cache is left as it was, with
\* the examples the call fetched in it; and the call that follows a failed
\* call issues no lookup for the types the failed call fetched.
C29_FailedCallLeavesItsExamplesCached ==
  [][ \A c \in Slots :
        /\ FailsAfterCompletion(c) =>
             /\ exampleCache' = exampleCache
             /\ FetchedBy(calls'[c]) \subseteq DOMAIN exampleCache'
        /\ (calls[c].pc = "failed" /\ calls'[c] # calls[c]) =>
             /\ FetchedBy(calls[c]) \subseteq DOMAIN exampleCache
             /\ \A j \in 1..Len(calls'[c].qnaIssued) :
                  calls'[c].qnaIssued[j] \notin FetchedBy(calls[c])
        /\ \A j \in (Len(calls[c].qnaIssued) + 1)..Len(calls'[c].qnaIssued) :
             (calls'[c].request = calls[c].request) =>
               calls'[c].qnaIssued[j] \notin DOMAIN exampleCache' ]_vars

\* The call of slot 1 fetched an example and then failed on a response
\* without a code block; the call of slot 2 took that example from the
\* cache and issued no lookup.
C29_Witness ==
  /\ calls[1].pc = "failed"
  /\ calls[1].completion = "text"
  /\ FetchedBy(calls[1]) # {}
  /\ calls[2].pc \in {"completing", "returned"}
  /\ calls[2].served = FetchedBy(calls[1])
  /\ calls[2].qnaIssued = << >>
  /\ \A t \in FetchedBy(calls[1]) : qnaOk[t] = 1 /\ t \in DOMAIN exampleCache

\* C30: every gap prop set on a Stack or a Flex, for a layout whose gap is
\* a number or absent, is an integer from 1 to 6; a container with a layout
\* descriptor and no gap gets gap 6.
C30_GapIsABucket ==
  \A k \in CreatedOfType("Stack") \cup CreatedOfType("Flex") :
    LET node == applied[k].arg
        props == applied[k].result[1].props
    IN /\ "gap" \in DOMAIN props <=> node.layout # << >>
       /\ "gap" \in DOMAIN props => props.gap \in 1..6
       /\ (node.layout # << >> /\ node.layout[1].gap = << >>) => props.gap = 6

\* A frame with a horizontal layout and no gap became a Flex with gap 6.
C30_Witness ==
  \E k \in CreatedOfType("Flex") :
    /\ applied[k].arg.layout # << >>
    /\ applied[k].arg.layout[1].mode = "HORIZONTAL"
    /\ applied[k].arg.layout[1].gap = << >>
    /\ applied[k].result[1].props.gap = 6
=============================================================================
